---- MODULE Spec2Model ----
(***************************************************************************)
(* A model of the transparent OpenAI API proxy (main.go): the Config and   *)
(* RequestLogger values, the RequestLogger.LogRequest / LogResponse        *)
(* formatters and sink writes, and ProxyServer.ServeHTTP as a state        *)
(* machine with one step per blocking operation.                           *)
(*                                                                         *)
(* Byte strings are sequences of byte values.  An http.Header is a         *)
(* function from the (canonical) header names present to the sequence of   *)
(* values of each; Go's map iteration order is not part of the value.      *)
(***************************************************************************)
EXTENDS Integers, Sequences, FiniteSets, TLC

\* ------------------------------------------------------------------ bounds

\* time.Now() never reads more than MaxClock from the model's clock
MaxClock == 1
\* the upstream body of an event stream arrives in at most MaxSegs segments
MaxSegs == 2
\* the inbound request bodies are of 0..MaxReqBody bytes, and one is longer
\* than maxBodySize
MaxReqBody == 1
\* the client connection may break after 0..MaxCap body bytes
MaxCap == 1

\* ------------------------------------------------------- program constants

\* maxBodySize in LogResponse
maxBodySize == 10000
\* make([]byte, 4096) in the streaming loop
StreamBufSize == 4096
StatusInternalServerError == 500
StatusBadGateway == 502
StatusOK == 200

\* io.Copy's buffer (32 KiB); every io.ReadAll read is at most this long too
CopyBufSize == 32 * 1024

\* a client connection that never breaks
Unlimited == 2 * CopyBufSize

\* the two handler invocations of the model
Procs == {"h1", "h2"}

\* ------------------------------------------------------------ byte strings

Min(a, b) == IF a < b THEN a ELSE b

\* The n bytes of a body that follow its first `off` bytes.  The content of
\* every body is fixed by the position of each byte, so that a slice taken at
\* a wrong offset or of a wrong length is a different value.
Bytes(off, n) == [i \in 1..n |-> (off + i) % 251]

\* the plain-text bodies of http.Error, as ASCII ("...\n" by Fprintln)
ErrReadingRequestBody ==
    << 69, 114, 114, 111, 114, 32, 114, 101, 97, 100, 105, 110, 103, 32, 114,
       101, 113, 117, 101, 115, 116, 32, 98, 111, 100, 121, 10 >>
ErrForwarding ==
    << 69, 114, 114, 111, 114, 32, 102, 111, 114, 119, 97, 114, 100, 105, 110,
       103, 32, 114, 101, 113, 117, 101, 115, 116, 32, 116, 111, 32, 79, 112,
       101, 110, 65, 73, 32, 65, 80, 73, 58, 32, 100, 105, 97, 108, 32, 116,
       99, 112, 58, 32, 99, 111, 110, 110, 101, 99, 116, 105, 111, 110, 32,
       114, 101, 102, 117, 115, 101, 100, 10 >>
ErrStreamingNotSupported ==
    << 83, 116, 114, 101, 97, 109, 105, 110, 103, 32, 110, 111, 116, 32, 115,
       117, 112, 112, 111, 114, 116, 101, 100, 10 >>
ErrReadingResponse ==
    << 69, 114, 114, 111, 114, 32, 114, 101, 97, 100, 105, 110, 103, 32, 114,
       101, 115, 112, 111, 110, 115, 101, 32, 102, 114, 111, 109, 32, 79, 112,
       101, 110, 65, 73, 32, 65, 80, 73, 10 >>

\* ------------------------------------------------------------- http.Header

EmptyHeader == [n \in {} |-> <<>>]

\* textproto.CanonicalMIMEHeaderKey on the names the program passes to Get/Set
CanonicalHeaderKey(name) ==
    CASE name = "X-Request-ID" -> "X-Request-Id"
      [] name \in {"HOST", "host"} -> "Host"
      [] OTHER -> name

\* strings.ToLower on the header names of the model
ToLower(name) ==
    CASE name = "Authorization" -> "authorization"
      [] name \in {"Host", "HOST"} -> "host"
      [] name = "X-Request-Id" -> "x-request-id"
      [] name = "Accept" -> "accept"
      [] name = "Content-Type" -> "content-type"
      [] name = "Set-Cookie" -> "set-cookie"
      [] name = "X-Content-Type-Options" -> "x-content-type-options"
      [] OTHER -> name

\* Header.Get: the first value of the canonical key, "" when there is none
HeaderGet(h, name) ==
    LET k == CanonicalHeaderKey(name)
    IN  IF k \in DOMAIN h /\ Len(h[k]) > 0 THEN h[k][1] ELSE ""

\* Header.Set: the canonical key gets the single value v
HeaderSet(h, name, v) ==
    LET k == CanonicalHeaderKey(name)
    IN  [n \in DOMAIN h \cup {k} |-> IF n = k THEN <<v>> ELSE h[n]]

\* Header.Add: v is appended to the values of the canonical key
HeaderAdd(h, name, v) ==
    LET k == CanonicalHeaderKey(name)
    IN  [n \in DOMAIN h \cup {k} |->
            IF n = k THEN (IF k \in DOMAIN h THEN Append(h[k], v) ELSE <<v>>)
            ELSE h[n]]

\* Header.Del
HeaderDel(h, name) ==
    [n \in DOMAIN h \ {CanonicalHeaderKey(name)} |-> h[n]]

\* "for name, values := range src { for _, value := range values {
\*  dst.Add(name, value) } }" over the names of src that `keep` accepts: the
\* values of each name are added in their order
RECURSIVE AddValues(_, _, _)
AddValues(dst, name, values) ==
    IF values = <<>> THEN dst
    ELSE AddValues(HeaderAdd(dst, name, Head(values)), name, Tail(values))

RECURSIVE CopyHeaderNames(_, _, _)
CopyHeaderNames(dst, src, names) ==
    IF names = {} THEN dst
    ELSE LET n == CHOOSE x \in names : TRUE
         IN  CopyHeaderNames(AddValues(dst, n, src[n]), src, names \ {n})

\* strings.Contains(contentType, "text/event-stream") on the content types of
\* the model
ContainsEventStream(ct) ==
    ct \in {"text/event-stream", "text/event-stream; charset=utf-8"}

\* ----------------------------------------------------- http.ResponseWriter

\* The client's view of one response.  hdr is the map w.Header() returns;
\* status and sentHdr are what WriteHeader committed; out lists the Write and
\* Flush calls in order, each Write with the bytes passed (data) and the
\* number of them the connection took (n); got is the sum of the n.
NewResponseWriter ==
    [hdr |-> EmptyHeader, wroteHeader |-> FALSE, status |-> 0,
     sentHdr |-> EmptyHeader, out |-> <<>>, got |-> 0]

\* w.WriteHeader(code): the first call commits the status and a snapshot of
\* the header map; a later call is superfluous and changes nothing
WriteHeader(w, code) ==
    IF w.wroteHeader THEN w
    ELSE [w EXCEPT !.wroteHeader = TRUE, !.status = code, !.sentHdr = w.hdr]

\* whether w.Write(data) returns a nil error on a connection that takes `cap`
\* body bytes in all
WriteOK(w, data, cap) == w.got + Len(data) <= cap

\* w.Write(data): commits 200 when nothing was committed, then hands the
\* connection the bytes, of which it takes what is left of cap
Write(w, data, cap) ==
    LET w1 == WriteHeader(w, StatusOK)
        room == IF cap > w1.got THEN cap - w1.got ELSE 0
        n == Min(Len(data), room)
    IN  [w1 EXCEPT !.out = Append(@, [op |-> "write", data |-> data, n |-> n]),
                   !.got = @ + n]

\* flusher.Flush()
Flush(w) ==
    [w EXCEPT !.out = Append(@, [op |-> "flush", data |-> <<>>, n |-> 0])]

\* http.Error(w, msg, code): sets the error headers in the header map, calls
\* WriteHeader(code) and prints msg
HttpError(w, msg, code, cap) ==
    LET h1 == HeaderDel(w.hdr, "Content-Length")
        h2 == HeaderSet(h1, "Content-Type", "text/plain; charset=utf-8")
        h3 == HeaderSet(h2, "X-Content-Type-Options", "nosniff")
    IN  Write(WriteHeader([w EXCEPT !.hdr = h3], code), msg, cap)

\* the body bytes the client has received: what the connection took of each
\* Write, in order
RECURSIVE Received(_)
Received(out) ==
    IF out = <<>> THEN <<>>
    ELSE LET e == out[Len(out)]
         IN  Received(SubSeq(out, 1, Len(out) - 1)) \o SubSeq(e.data, 1, e.n)

\* ------------------------------------------------------------ resp.Body

\* The upstream body arrives as the segments segs (their lengths, in order)
\* and ends as `end` says: "eof" and "err" end it with a read of no bytes,
\* "eofWithLast" and "errWithLast" return io.EOF or the error together with
\* the last bytes.  rd is the reader's position: the segment it is in, the
\* bytes of it already read, and the bytes read in all.
NewReader == [seg |-> 1, off |-> 0, abs |-> 0]

\* resp.Body.Read(buffer) with len(buffer) = size: at most size bytes of the
\* current segment
BodyRead(segs, end, rd, size) ==
    IF rd.seg > Len(segs)
    THEN [data |-> <<>>,
          err |-> IF end \in {"err", "errWithLast"} THEN "error" ELSE "EOF",
          rd |-> rd]
    ELSE LET n == Min(size, segs[rd.seg] - rd.off)
             fin == rd.off + n = segs[rd.seg]
             last == fin /\ rd.seg = Len(segs)
         IN  [data |-> Bytes(rd.abs, n),
              err |-> IF last /\ end = "eofWithLast" THEN "EOF"
                      ELSE IF last /\ end = "errWithLast" THEN "error"
                      ELSE "",
              rd |-> [seg |-> IF fin THEN rd.seg + 1 ELSE rd.seg,
                      off |-> IF fin THEN 0 ELSE rd.off + n,
                      abs |-> rd.abs + n]]

\* io.ReadAll(resp.Body): reads until io.EOF (err = "") or an error
RECURSIVE ReadAllFrom(_, _, _, _)
ReadAllFrom(segs, end, rd, acc) ==
    LET r == BodyRead(segs, end, rd, CopyBufSize)
    IN  IF r.err = "EOF" THEN [data |-> acc \o r.data, err |-> ""]
        ELSE IF r.err = "error" THEN [data |-> acc \o r.data, err |-> "error"]
        ELSE ReadAllFrom(segs, end, r.rd, acc \o r.data)

ReadAll(segs, end) == ReadAllFrom(segs, end, NewReader, <<>>)

\* ------------------------------------------------------- RequestLogger

\* NewRequestLogger(logFile, logToStdout)
NewRequestLogger(logFile, logToStdout) ==
    [LogToStdout |-> logToStdout,
     LogToFile |-> logFile # "",
     LogFile |-> IF logFile # "" THEN "open" ELSE "nil"]

\* RequestHeaderLines without the redaction
RequestHeaderLines_Verbatim(hdr) ==
    [name \in DOMAIN hdr |->
        [i \in 1..Len(hdr[name]) |-> "  " \o name \o ": " \o hdr[name][i]]]

\* the request header lines of LogRequest: the Authorization header is one
\* redacted line, every other header one line per value
RequestHeaderLines(hdr) ==
    [name \in DOMAIN hdr |->
        IF ToLower(name) = "authorization"
        THEN << "  " \o name \o ": Bearer [REDACTED]" >>
        ELSE [i \in 1..Len(hdr[name]) |-> "  " \o name \o ": " \o hdr[name][i]]]

\* the response header lines of LogResponse: one line per value
ResponseHeaderLines(hdr) ==
    [name \in DOMAIN hdr |->
        [i \in 1..Len(hdr[name]) |-> "  " \o name \o ": " \o hdr[name][i]]]

\* the body section of LogRequest
RequestBodySection(body) ==
    IF Len(body) > 0
    THEN [label |-> "Body:", text |-> body, more |-> ""]
    ELSE [label |-> "", text |-> <<>>, more |-> ""]

\* ResponseBodySection cutting a body of maxBodySize bytes too
ResponseBodySection_CutsAtLimit(body) ==
    IF Len(body) > 0
    THEN IF Len(body) >= maxBodySize
         THEN [label |-> "Body (truncated to " \o ToString(maxBodySize) \o " bytes):",
               text |-> SubSeq(body, 1, maxBodySize),
               more |-> "... [" \o ToString(Len(body) - maxBodySize) \o " more bytes]"]
         ELSE [label |-> "Body:", text |-> body, more |-> ""]
    ELSE [label |-> "", text |-> <<>>, more |-> ""]

\* the body section of LogResponse, cut to maxBodySize bytes
ResponseBodySection(body) ==
    IF Len(body) > 0
    THEN IF Len(body) > maxBodySize
         THEN [label |-> "Body (truncated to " \o ToString(maxBodySize) \o " bytes):",
               text |-> SubSeq(body, 1, maxBodySize),
               more |-> "... [" \o ToString(Len(body) - maxBodySize) \o " more bytes]"]
         ELSE [label |-> "Body:", text |-> body, more |-> ""]
    ELSE [label |-> "", text |-> <<>>, more |-> ""]

\* LogRequest's logData for request r (its Header as the handler left it) and
\* body, with time.Now() = now: the id is the X-Request-ID header, or a new
\* "req-<nanoseconds>" when that is empty
FormatRequest(method, path, proto, hdr, body, now) ==
    [kind |-> "REQUEST",
     id |-> IF HeaderGet(hdr, "X-Request-ID") = ""
            THEN "req-" \o ToString(now)
            ELSE HeaderGet(hdr, "X-Request-ID"),
     ts |-> now,
     line |-> method \o " " \o path \o " " \o proto,
     headers |-> RequestHeaderLines(hdr),
     body |-> RequestBodySection(body)]

\* LogResponse's logData for reqID, the response (proto, status, header) and
\* body, with time.Now() = now
FormatResponse(reqID, proto, status, hdr, body, now) ==
    [kind |-> "RESPONSE",
     id |-> reqID,
     ts |-> now,
     line |-> proto \o " " \o status,
     headers |-> ResponseHeaderLines(hdr),
     body |-> ResponseBodySection(body)]

\* ------------------------------------------------------------------ state

VARIABLES
    args,       \* the flags given on the command line, with their values
    environ,    \* the environment variables that are set, .env included
    boot,       \* the step of main
    config,     \* config[p]: s.Config of the server that handles p
    logger,     \* s.Logger: LogToFile, LogToStdout, LogFile
    req,        \* req[p]: the inbound request as the client sent it
    env,        \* env[p]: the client connection of p (flusher, cap) and what the
                \* upstream may answer in this scenario (outcomes, segLens,
                \* bodyLens)
    src,        \* src[p]: the upstream exchange that answers p
    upstream,   \* upstream[s]: the answer of exchange s as far as it has
                \* arrived: the response head, the body segments, the end
    clock,      \* the value time.Now() returns
    file,       \* what has been written to the log file, one entry per Write
    stdout,     \* what has been written to the console, one entry per Write
    pc,         \* pc[p]: the step of ServeHTTP invocation p
    ret,        \* ret[p]: the step that follows the log call in progress
    rHeader,    \* r.Header
    reqID,      \* reqID
    bodyBytes,  \* bodyBytes
    proxyReq,   \* proxyReq
    resp,       \* whether client.Do has returned a response
    w,          \* the http.ResponseWriter
    rd,         \* the position of resp.Body
    chunk,      \* the bytes and the error of the last read of resp.Body
    logData,    \* logData of the log call in progress
    closed,     \* whether resp.Body.Close() has run
    calls,      \* history: the number of client.Do calls
    trace       \* history: the reads, writes, flushes and log calls, in order

inputs == <<args, environ, boot, config, logger, req, env, src>>
sinks == <<file, stdout>>
locals == <<ret, rHeader, reqID, bodyBytes, proxyReq, resp, w, rd, chunk,
            logData, closed, calls, trace>>
vars == <<inputs, clock, sinks, upstream, pc, locals>>

NoRequest ==
    [Method |-> "", URL |-> "", Host |-> "", Body |-> <<>>, Header |-> EmptyHeader]
NoChunk == [data |-> <<>>, err |-> ""]
NoLogData ==
    [kind |-> "", id |-> "", ts |-> 0, line |-> "", headers |-> EmptyHeader,
     body |-> [label |-> "", text |-> <<>>, more |-> ""]]

\* the body the client sends with a request of n body bytes
RequestBody(n) == Bytes(128, n)

NoHead ==
    [ok |-> FALSE, Proto |-> "", Status |-> "", StatusCode |-> 0,
     Header |-> EmptyHeader]
NoAnswer == [state |-> "none", head |-> NoHead, segs |-> <<>>, end |-> ""]

\* the upstream exchange of p, and the response of it
Up(p) == upstream[src[p]]
Resp(p) == upstream[src[p]].head

\* no flag given, no environment variable set
NoArgs == [n \in {} |-> ""]
NoEnviron == [n \in {} |-> ""]

\* the state after construction in scenario sc: the server of each handler
\* has its Config, the logger is built from it, nothing has been written, and
\* the handlers in sc.active are about to run ServeHTTP on their requests
InitOf(sc) ==
    /\ args = NoArgs
    /\ environ = NoEnviron
    /\ boot = "serving"
    /\ config = sc.config
    /\ logger = NewRequestLogger(sc.config["h1"].RequestLogFile,
                                 sc.config["h1"].LogToStdout)
    /\ req = sc.req
    /\ env = sc.env
    /\ src = sc.src
    /\ upstream = [s \in Procs |-> NoAnswer]
    /\ pc = [p \in Procs |-> IF p \in sc.active THEN "start"
                              ELSE IF p \in sc.later THEN "waiting" ELSE "off"]
    /\ rHeader = [p \in Procs |-> sc.req[p].Header]
    /\ clock = 0
    /\ file = <<>>
    /\ stdout = <<>>
    /\ ret = [p \in Procs |-> ""]
    /\ reqID = [p \in Procs |-> ""]
    /\ bodyBytes = [p \in Procs |-> <<>>]
    /\ proxyReq = [p \in Procs |-> NoRequest]
    /\ resp = [p \in Procs |-> FALSE]
    /\ w = [p \in Procs |-> NewResponseWriter]
    /\ rd = [p \in Procs |-> NewReader]
    /\ chunk = [p \in Procs |-> NoChunk]
    /\ logData = [p \in Procs |-> NoLogData]
    /\ closed = [p \in Procs |-> FALSE]
    /\ calls = [p \in Procs |-> 0]
    /\ trace = [p \in Procs |-> <<>>]

\* ---------------------------------------------------------------- actions

Event(op, n) == [op |-> op, n |-> n]

\* Time passes.  The clock is let advance where its value decides an id: before
\* a handler reads X-Request-ID and before LogRequest does; a LogResponse
\* stamps its record with the value the clock then has.
Tick ==
    /\ clock < MaxClock
    /\ \E p \in Procs : pc[p] \in {"start", "logReq"}
    /\ clock' = clock + 1
    /\ UNCHANGED <<inputs, sinks, upstream, pc, locals>>

\* Return without the deferred resp.Body.Close()
Return_NeverCloses(p, gotResp) ==
    /\ pc' = [pc EXCEPT ![p] = "done"]
    /\ UNCHANGED closed

\* ServeHTTP returns: the deferred resp.Body.Close() runs when client.Do had
\* returned a response
Return(p, gotResp) ==
    /\ pc' = [pc EXCEPT ![p] = "done"]
    /\ closed' = [closed EXCEPT ![p] = gotResp]

\* the first step of the sink writes of LogRequest and LogResponse from
\* `stage` on, or the step after the log call when no sink is left
NextSink(p, stage, after) ==
    IF stage = "file" /\ logger.LogToFile /\ logger.LogFile # "nil"
    THEN "fileW"
    ELSE IF logger.LogToStdout THEN "stdoutW" ELSE after

\* a call of LogRequest or LogResponse that has built logData = rec; the
\* handler goes on at `after` when the call returns
LogCall(p, rec, after) ==
    /\ logData' = [logData EXCEPT ![p] = rec]
    /\ ret' = [ret EXCEPT ![p] = after]
    /\ pc' = [pc EXCEPT ![p] = NextSink(p, "file", after)]

\* AssignID without r.Header.Set("X-Request-ID", reqID)
AssignID_NoSet(p) ==
    /\ pc[p] = "start"
    /\ LET got == HeaderGet(rHeader[p], "X-Request-ID")
       IN  reqID' = [reqID EXCEPT ![p] =
                        IF got = "" THEN "req-" \o ToString(clock) ELSE got]
    /\ pc' = [pc EXCEPT ![p] = "readBody"]
    /\ UNCHANGED <<inputs, clock, sinks, upstream, ret, rHeader, bodyBytes,
                   proxyReq, resp, w, rd, chunk, logData, closed, calls, trace>>

\* reqID := r.Header.Get("X-Request-ID"), synthesized and set on the request
\* when empty
AssignID(p) ==
    /\ pc[p] = "start"
    /\ LET got == HeaderGet(rHeader[p], "X-Request-ID")
           id == IF got = "" THEN "req-" \o ToString(clock) ELSE got
       IN  /\ reqID' = [reqID EXCEPT ![p] = id]
           /\ rHeader' = [rHeader EXCEPT ![p] =
                 IF got = "" THEN HeaderSet(@, "X-Request-ID", id) ELSE @]
    /\ pc' = [pc EXCEPT ![p] = "readBody"]
    /\ UNCHANGED <<inputs, clock, sinks, upstream, ret, bodyBytes, proxyReq, resp, w, rd,
                   chunk, logData, closed, calls, trace>>

\* ReadBody without the return after http.Error
ReadBody_ContinuesOnError(p) ==
    /\ pc[p] = "readBody"
    /\ IF req[p].bodyErr
       THEN /\ w' = [w EXCEPT ![p] =
                 HttpError(@, ErrReadingRequestBody, StatusInternalServerError,
                           env[p].cap)]
            /\ UNCHANGED bodyBytes
       ELSE /\ bodyBytes' = [bodyBytes EXCEPT ![p] = RequestBody(req[p].bodyLen)]
            /\ UNCHANGED w
    /\ pc' = [pc EXCEPT ![p] = "logReq"]
    /\ UNCHANGED <<inputs, clock, sinks, upstream, ret, rHeader, reqID, proxyReq, resp,
                   rd, chunk, logData, closed, calls, trace>>

\* bodyBytes, err = io.ReadAll(r.Body); 500 and return when it fails
ReadBody(p) ==
    /\ pc[p] = "readBody"
    /\ IF req[p].bodyErr
       THEN /\ w' = [w EXCEPT ![p] =
                 HttpError(@, ErrReadingRequestBody, StatusInternalServerError,
                           env[p].cap)]
            /\ Return(p, resp[p])
            /\ UNCHANGED bodyBytes
       ELSE /\ bodyBytes' = [bodyBytes EXCEPT ![p] = RequestBody(req[p].bodyLen)]
            /\ pc' = [pc EXCEPT ![p] = "logReq"]
            /\ UNCHANGED <<w, closed>>
    /\ UNCHANGED <<inputs, clock, sinks, upstream, ret, rHeader, reqID, proxyReq, resp,
                   rd, chunk, logData, calls, trace>>

\* LogReq after the credential was set on r.Header itself
LogReq_AfterInjection(p) ==
    /\ pc[p] = "logReq"
    /\ IF config[p].LogRequests
       THEN /\ LogCall(p, FormatRequest(req[p].Method, req[p].Path, req[p].Proto,
                                        IF HeaderGet(rHeader[p], "Authorization") = ""
                                           /\ config[p].OpenAIAPIKey # ""
                                        THEN HeaderSet(rHeader[p], "Authorization",
                                                       "Bearer " \o config[p].OpenAIAPIKey)
                                        ELSE rHeader[p],
                                        bodyBytes[p], clock),
                       "build")
            /\ trace' = [trace EXCEPT ![p] = Append(@, Event("logRequest", Len(bodyBytes[p])))]
       ELSE /\ pc' = [pc EXCEPT ![p] = "build"]
            /\ UNCHANGED <<logData, ret, trace>>
    /\ UNCHANGED <<inputs, clock, sinks, upstream, rHeader, reqID, bodyBytes, proxyReq,
                   resp, w, rd, chunk, closed, calls>>

\* if s.Config.LogRequests { s.Logger.LogRequest(r, bodyBytes) }
LogReq(p) ==
    /\ pc[p] = "logReq"
    /\ IF config[p].LogRequests
       THEN /\ LogCall(p, FormatRequest(req[p].Method, req[p].Path, req[p].Proto,
                                        rHeader[p], bodyBytes[p], clock),
                       "build")
            /\ trace' = [trace EXCEPT ![p] = Append(@, Event("logRequest", Len(bodyBytes[p])))]
       ELSE /\ pc' = [pc EXCEPT ![p] = "build"]
            /\ UNCHANGED <<logData, ret, trace>>
    /\ UNCHANGED <<inputs, clock, sinks, upstream, rHeader, reqID, bodyBytes, proxyReq,
                   resp, w, rd, chunk, closed, calls>>

\* fmt.Fprintln(l.LogFile, logData) is entered
FileWrite(p) ==
    /\ pc[p] = "fileW"
    /\ pc' = [pc EXCEPT ![p] = "inFileW"]
    /\ UNCHANGED <<inputs, clock, sinks, upstream, locals>>

\* fmt.Fprintln(l.LogFile, logData) returns: logData and a newline have been
\* appended to the file by one Write
FileWriteDone(p) ==
    /\ pc[p] = "inFileW"
    /\ file' = Append(file, [rec |-> logData[p], nl |-> TRUE, by |-> p])
    /\ pc' = [pc EXCEPT ![p] = NextSink(p, "stdout", ret[p])]
    /\ UNCHANGED <<inputs, clock, stdout, upstream, locals>>

\* fmt.Print(logData) is entered
StdoutWrite(p) ==
    /\ pc[p] = "stdoutW"
    /\ pc' = [pc EXCEPT ![p] = "inStdoutW"]
    /\ UNCHANGED <<inputs, clock, sinks, upstream, locals>>

\* fmt.Print(logData) returns: logData has been written to the console by one
\* Write
StdoutWriteDone(p) ==
    /\ pc[p] = "inStdoutW"
    /\ stdout' = Append(stdout, [rec |-> logData[p], nl |-> FALSE, by |-> p])
    /\ pc' = [pc EXCEPT ![p] = ret[p]]
    /\ UNCHANGED <<inputs, clock, file, upstream, locals>>

\* targetURL := s.Config.OpenAIBaseURL + r.URL.Path (+ "?" + r.URL.RawQuery)
TargetURL(base, path, rawQuery) ==
    IF rawQuery # "" THEN base \o path \o "?" \o rawQuery ELSE base \o path

\* OutboundHeader with the Host header copied like the others
OutboundHeader_WithHost(hdr, key) ==
    LET copied == CopyHeaderNames(EmptyHeader, hdr, DOMAIN hdr)
    IN  IF HeaderGet(copied, "Authorization") = "" /\ key # ""
        THEN HeaderSet(copied, "Authorization", "Bearer " \o key)
        ELSE copied

\* OutboundHeader skipping only the header spelled "Host"
OutboundHeader_ExactHost(hdr, key) ==
    LET copied == CopyHeaderNames(EmptyHeader, hdr,
                                  {n \in DOMAIN hdr : n # "Host"})
    IN  IF HeaderGet(copied, "Authorization") = "" /\ key # ""
        THEN HeaderSet(copied, "Authorization", "Bearer " \o key)
        ELSE copied

\* the header of proxyReq: every header of r but Host, then the API key as
\* Authorization when Get("Authorization") is empty and a key is configured
OutboundHeader(hdr, key) ==
    LET copied == CopyHeaderNames(EmptyHeader, hdr,
                                  {n \in DOMAIN hdr : ToLower(n) # "host"})
    IN  IF HeaderGet(copied, "Authorization") = "" /\ key # ""
        THEN HeaderSet(copied, "Authorization", "Bearer " \o key)
        ELSE copied

\* the host of the base URLs of the model, which http.NewRequest makes the
\* Host of the request (the path and query of the target add nothing to it)
URLHost(base) ==
    CASE base = "https://api.openai.com/v1" -> "api.openai.com"
      [] base = "http://localhost:11434/v1" -> "localhost:11434"
      [] OTHER -> ""

\* proxyReq, err := http.NewRequest(r.Method, targetURL, bytes.NewBuffer(bodyBytes))
\* and its headers
Build(p) ==
    /\ pc[p] = "build"
    /\ proxyReq' = [proxyReq EXCEPT ![p] =
          [Method |-> req[p].Method,
           URL |-> TargetURL(config[p].OpenAIBaseURL, req[p].Path, req[p].RawQuery),
           Host |-> URLHost(config[p].OpenAIBaseURL),
           Body |-> bodyBytes[p],
           Header |-> OutboundHeader(rHeader[p], config[p].OpenAIAPIKey)]]
    /\ pc' = [pc EXCEPT ![p] = "dispatch"]
    /\ UNCHANGED <<inputs, clock, sinks, upstream, ret, rHeader, reqID, bodyBytes, resp,
                   w, rd, chunk, logData, closed, calls, trace>>

\* Dispatch calling client.Do a second time when the first call fails
Dispatch_Retries(p) ==
    /\ pc[p] = "dispatch"
    /\ \E head \in (IF Up(p).state = "none" THEN env[p].outcomes ELSE {Resp(p)}) :
          /\ calls' = [calls EXCEPT ![p] = @ + (IF head.ok THEN 1 ELSE 2)]
          /\ upstream' = [upstream EXCEPT ![src[p]] =
                [@ EXCEPT !.state = "set", !.head = head]]
          /\ IF head.ok
             THEN /\ resp' = [resp EXCEPT ![p] = TRUE]
                  /\ pc' = [pc EXCEPT ![p] = "commit"]
                  /\ UNCHANGED <<w, closed>>
             ELSE /\ w' = [w EXCEPT ![p] =
                       HttpError(@, ErrForwarding, StatusBadGateway, env[p].cap)]
                  /\ Return(p, FALSE)
                  /\ UNCHANGED resp
    /\ UNCHANGED <<inputs, clock, sinks, ret, rHeader, reqID, bodyBytes,
                   proxyReq, rd, chunk, logData, trace>>

\* resp, err := client.Do(proxyReq); 502 and return when it fails
Dispatch(p) ==
    /\ pc[p] = "dispatch"
    /\ calls' = [calls EXCEPT ![p] = @ + 1]
    /\ \E head \in (IF Up(p).state = "none" THEN env[p].outcomes ELSE {Resp(p)}) :
          /\ upstream' = [upstream EXCEPT ![src[p]] =
                [@ EXCEPT !.state = "set", !.head = head]]
          /\ IF head.ok
             THEN /\ resp' = [resp EXCEPT ![p] = TRUE]
                  /\ pc' = [pc EXCEPT ![p] = "commit"]
                  /\ UNCHANGED <<w, closed>>
             ELSE /\ w' = [w EXCEPT ![p] =
                       HttpError(@, ErrForwarding, StatusBadGateway, env[p].cap)]
                  /\ Return(p, FALSE)
                  /\ UNCHANGED resp
    /\ UNCHANGED <<inputs, clock, sinks, ret, rHeader, reqID, bodyBytes,
                   proxyReq, rd, chunk, logData, trace>>

\* isStreaming
IsStreaming(hdr) == ContainsEventStream(HeaderGet(hdr, "Content-Type"))

\* RelayHeaders with the status committed before the headers are added
RelayHeaders_CommitsFirst(wr, hdr, code) ==
    [WriteHeader(wr, code) EXCEPT !.hdr = CopyHeaderNames(@, hdr, DOMAIN hdr)]

\* the response headers are added to w.Header() and the status is committed
RelayHeaders(wr, hdr, code) ==
    WriteHeader([wr EXCEPT !.hdr = CopyHeaderNames(@, hdr, DOMAIN hdr)], code)

\* the branch ServeHTTP takes after w.WriteHeader: "noFlusher", "stream"
\* (the chunk loop), "copy" (io.Copy) or "buffered"
BodyMode(hdr, logResponses, flusher) ==
    IF IsStreaming(hdr)
    THEN IF logResponses
         THEN IF flusher THEN "stream" ELSE "noFlusher"
         ELSE "copy"
    ELSE "buffered"

\* the response headers and status are relayed and the body mode is chosen;
\* a streaming response to log needs a Flusher
Commit(p) ==
    /\ pc[p] = "commit"
    /\ LET w2 == RelayHeaders(w[p], Resp(p).Header, Resp(p).StatusCode)
           mode == BodyMode(Resp(p).Header, config[p].LogResponses, env[p].flusher)
       IN  IF mode = "noFlusher"
           THEN /\ w' = [w EXCEPT ![p] =
                     HttpError(w2, ErrStreamingNotSupported,
                               StatusInternalServerError, env[p].cap)]
                /\ Return(p, resp[p])
           ELSE /\ w' = [w EXCEPT ![p] = w2]
                /\ pc' = [pc EXCEPT ![p] =
                      CASE mode = "stream" -> "streamRead"
                        [] mode = "copy" -> "copyRead"
                        [] OTHER -> "bufRead"]
                /\ UNCHANGED closed
    /\ trace' = [trace EXCEPT ![p] = Append(@, Event("writeHeader", 0))]
    /\ UNCHANGED <<inputs, clock, sinks, upstream, ret, rHeader, reqID, bodyBytes,
                   proxyReq, resp, rd, chunk, logData, calls>>

\* whether a read of resp.Body by p can return: bytes it has not read have
\* arrived, or the body has ended
Available(p) == rd[p].seg <= Len(Up(p).segs) \/ Up(p).end # ""

\* The upstream sends more of the body p is waiting for: a segment (of an
\* event stream at most MaxSegs, of another body one), with which the body may
\* end, or the end alone.
Arrive(p) ==
    /\ \/ pc[p] \in {"streamRead", "copyRead"} /\ ~Available(p)
       \/ pc[p] = "bufRead" /\ Up(p).end = ""
    /\ LET streaming == IsStreaming(Resp(p).Header)
           lens == IF streaming THEN env[p].segLens ELSE env[p].bodyLens
           more == Len(Up(p).segs) < (IF streaming THEN MaxSegs ELSE 1)
       IN  \/ /\ more
              /\ \E n \in lens, e \in {"", "eofWithLast", "errWithLast"} :
                    /\ n = 0 => e = ""
                    /\ upstream' = [upstream EXCEPT ![src[p]] =
                        [@ EXCEPT !.segs = Append(@, n), !.end = e]]
           \/ \E e \in {"eof", "err"} :
                 upstream' = [upstream EXCEPT ![src[p]] = [@ EXCEPT !.end = e]]
    /\ UNCHANGED <<inputs, clock, sinks, pc, locals>>

\* StreamRead leaving the loop on a read error before it looks at n
StreamRead_DropsLastBytes(p) ==
    /\ pc[p] = "streamRead"
    /\ Available(p)
    /\ LET r == BodyRead(Up(p).segs, Up(p).end, rd[p], StreamBufSize)
       IN  /\ rd' = [rd EXCEPT ![p] = r.rd]
           /\ chunk' = [chunk EXCEPT ![p] = [data |-> r.data, err |-> r.err]]
           /\ trace' = [trace EXCEPT ![p] = Append(@, Event("read", Len(r.data)))]
           /\ IF r.err # ""
              THEN Return(p, resp[p])
              ELSE IF Len(r.data) > 0
                   THEN pc' = [pc EXCEPT ![p] = "streamWrite"] /\ UNCHANGED closed
                   ELSE pc' = [pc EXCEPT ![p] = "streamRead"] /\ UNCHANGED closed
    /\ UNCHANGED <<inputs, clock, sinks, upstream, ret, rHeader, reqID, bodyBytes,
                   proxyReq, resp, w, logData, calls>>

\* StreamRead without the test of err after a read of no bytes: the loop
\* reads again whatever the read returned
StreamRead_IgnoresReadError(p) ==
    /\ pc[p] = "streamRead"
    /\ Available(p)
    /\ LET r == BodyRead(Up(p).segs, Up(p).end, rd[p], StreamBufSize)
       IN  /\ rd' = [rd EXCEPT ![p] = r.rd]
           /\ chunk' = [chunk EXCEPT ![p] = [data |-> r.data, err |-> r.err]]
           /\ trace' = [trace EXCEPT ![p] = Append(@, Event("read", Len(r.data)))]
           /\ IF Len(r.data) > 0
              THEN pc' = [pc EXCEPT ![p] = "streamWrite"] /\ UNCHANGED closed
              ELSE pc' = [pc EXCEPT ![p] = "streamRead"] /\ UNCHANGED closed
    /\ UNCHANGED <<inputs, clock, sinks, upstream, ret, rHeader, reqID, bodyBytes,
                   proxyReq, resp, w, logData, calls>>

\* n, err := resp.Body.Read(buffer) in the streaming loop; with n = 0 the
\* loop ends on an error and reads again otherwise
StreamRead(p) ==
    /\ pc[p] = "streamRead"
    /\ Available(p)
    /\ LET r == BodyRead(Up(p).segs, Up(p).end, rd[p], StreamBufSize)
       IN  /\ rd' = [rd EXCEPT ![p] = r.rd]
           /\ chunk' = [chunk EXCEPT ![p] = [data |-> r.data, err |-> r.err]]
           /\ trace' = [trace EXCEPT ![p] = Append(@, Event("read", Len(r.data)))]
           /\ IF Len(r.data) > 0
              THEN pc' = [pc EXCEPT ![p] = "streamWrite"] /\ UNCHANGED closed
              ELSE IF r.err # ""
                   THEN Return(p, resp[p])
                   ELSE pc' = [pc EXCEPT ![p] = "streamRead"] /\ UNCHANGED closed
    /\ UNCHANGED <<inputs, clock, sinks, upstream, ret, rHeader, reqID, bodyBytes,
                   proxyReq, resp, w, logData, calls>>

\* StreamWrite without the flush after the write
StreamWrite_NoFlush(p) ==
    /\ pc[p] = "streamWrite"
    /\ w' = [w EXCEPT ![p] = Write(@, chunk[p].data, env[p].cap)]
    /\ IF WriteOK(w[p], chunk[p].data, env[p].cap)
       THEN /\ LogCall(p, FormatResponse(reqID[p], Resp(p).Proto, Resp(p).Status,
                                         Resp(p).Header, chunk[p].data, clock),
                       "streamNext")
            /\ trace' = [trace EXCEPT ![p] =
                  @ \o << Event("write", Len(chunk[p].data)),
                          Event("logResponse", Len(chunk[p].data)) >>]
            /\ UNCHANGED closed
       ELSE /\ Return(p, resp[p])
            /\ trace' = [trace EXCEPT ![p] =
                  Append(@, Event("writeFailed", Len(chunk[p].data)))]
            /\ UNCHANGED <<logData, ret>>
    /\ UNCHANGED <<inputs, clock, sinks, upstream, rHeader, reqID, bodyBytes, proxyReq,
                   resp, rd, chunk, calls>>

\* StreamWrite with LogResponse called before the result of the write is
\* looked at
StreamWrite_LogsFailedWrite(p) ==
    /\ pc[p] = "streamWrite"
    /\ LET ok == WriteOK(w[p], chunk[p].data, env[p].cap)
           wr == Write(w[p], chunk[p].data, env[p].cap)
       IN  /\ w' = [w EXCEPT ![p] = IF ok THEN Flush(wr) ELSE wr]
           /\ LogCall(p, FormatResponse(reqID[p], Resp(p).Proto, Resp(p).Status,
                                        Resp(p).Header, chunk[p].data, clock),
                      IF ok THEN "streamNext" ELSE "done")
           /\ trace' = [trace EXCEPT ![p] =
                 @ \o (IF ok THEN << Event("write", Len(chunk[p].data)),
                                     Event("flush", 0) >>
                              ELSE << Event("writeFailed", Len(chunk[p].data)) >>)
                   \o << Event("logResponse", Len(chunk[p].data)) >>]
           /\ closed' = [closed EXCEPT ![p] = IF ok THEN @ ELSE resp[p]]
    /\ UNCHANGED <<inputs, clock, sinks, upstream, rHeader, reqID, bodyBytes, proxyReq,
                   resp, rd, chunk, calls>>

\* the chunk is written; the loop ends when the write fails, else the chunk
\* is flushed and LogResponse is called with it
StreamWrite(p) ==
    /\ pc[p] = "streamWrite"
    /\ IF WriteOK(w[p], chunk[p].data, env[p].cap)
       THEN /\ w' = [w EXCEPT ![p] = Flush(Write(@, chunk[p].data, env[p].cap))]
            /\ LogCall(p, FormatResponse(reqID[p], Resp(p).Proto, Resp(p).Status,
                                         Resp(p).Header, chunk[p].data, clock),
                       "streamNext")
            /\ trace' = [trace EXCEPT ![p] =
                  @ \o << Event("write", Len(chunk[p].data)), Event("flush", 0),
                          Event("logResponse", Len(chunk[p].data)) >>]
            /\ UNCHANGED closed
       ELSE /\ w' = [w EXCEPT ![p] = Write(@, chunk[p].data, env[p].cap)]
            /\ Return(p, resp[p])
            /\ trace' = [trace EXCEPT ![p] =
                  Append(@, Event("writeFailed", Len(chunk[p].data)))]
            /\ UNCHANGED <<logData, ret>>
    /\ UNCHANGED <<inputs, clock, sinks, upstream, rHeader, reqID, bodyBytes, proxyReq,
                   resp, rd, chunk, calls>>

\* the end of one iteration of the streaming loop: it ends when the read had
\* returned an error
StreamNext(p) ==
    /\ pc[p] = "streamNext"
    /\ IF chunk[p].err # ""
       THEN Return(p, resp[p])
       ELSE pc' = [pc EXCEPT ![p] = "streamRead"] /\ UNCHANGED closed
    /\ UNCHANGED <<inputs, clock, sinks, upstream, ret, rHeader, reqID, bodyBytes,
                   proxyReq, resp, w, rd, chunk, logData, calls, trace>>

\* a read of io.Copy(w, resp.Body)
CopyRead(p) ==
    /\ pc[p] = "copyRead"
    /\ Available(p)
    /\ LET r == BodyRead(Up(p).segs, Up(p).end, rd[p], CopyBufSize)
       IN  /\ rd' = [rd EXCEPT ![p] = r.rd]
           /\ chunk' = [chunk EXCEPT ![p] = [data |-> r.data, err |-> r.err]]
           /\ trace' = [trace EXCEPT ![p] = Append(@, Event("read", Len(r.data)))]
           /\ IF Len(r.data) > 0
              THEN pc' = [pc EXCEPT ![p] = "copyWrite"] /\ UNCHANGED closed
              ELSE IF r.err # ""
                   THEN Return(p, resp[p])
                   ELSE pc' = [pc EXCEPT ![p] = "copyRead"] /\ UNCHANGED closed
    /\ UNCHANGED <<inputs, clock, sinks, upstream, ret, rHeader, reqID, bodyBytes,
                   proxyReq, resp, w, logData, calls>>

\* a write of io.Copy(w, resp.Body): no flush follows it; the copy ends when
\* the write fails or the read had returned an error
CopyWrite(p) ==
    /\ pc[p] = "copyWrite"
    /\ w' = [w EXCEPT ![p] = Write(@, chunk[p].data, env[p].cap)]
    /\ trace' = [trace EXCEPT ![p] =
          Append(@, Event(IF WriteOK(w[p], chunk[p].data, env[p].cap)
                          THEN "write" ELSE "writeFailed", Len(chunk[p].data)))]
    /\ IF ~WriteOK(w[p], chunk[p].data, env[p].cap) \/ chunk[p].err # ""
       THEN Return(p, resp[p])
       ELSE pc' = [pc EXCEPT ![p] = "copyRead"] /\ UNCHANGED closed
    /\ UNCHANGED <<inputs, clock, sinks, upstream, ret, rHeader, reqID, bodyBytes,
                   proxyReq, resp, rd, chunk, logData, calls>>

\* BufRead with LogResponse called before the error of io.ReadAll is tested
BufRead_LogsBeforeErrTest(p) ==
    /\ pc[p] = "bufRead"
    /\ Up(p).end # ""
    /\ LET r == ReadAll(Up(p).segs, Up(p).end)
           rec == FormatResponse(reqID[p], Resp(p).Proto, Resp(p).Status,
                                 Resp(p).Header, r.data, clock)
       IN  /\ trace' = [trace EXCEPT ![p] =
                 @ \o (<< Event("readAll", Len(r.data)) >> \o
                       IF config[p].LogResponses
                       THEN << Event("logResponse", Len(r.data)) >> ELSE << >>)]
           /\ IF r.err # ""
              THEN /\ w' = [w EXCEPT ![p] =
                        HttpError(@, ErrReadingResponse,
                                  StatusInternalServerError, env[p].cap)]
                   /\ closed' = [closed EXCEPT ![p] = resp[p]]
                   /\ UNCHANGED chunk
                   /\ IF config[p].LogResponses
                      THEN LogCall(p, rec, "done")
                      ELSE /\ pc' = [pc EXCEPT ![p] = "done"]
                           /\ UNCHANGED <<logData, ret>>
              ELSE /\ chunk' = [chunk EXCEPT ![p] = [data |-> r.data, err |-> ""]]
                   /\ IF config[p].LogResponses
                      THEN LogCall(p, rec, "bufWrite")
                      ELSE /\ pc' = [pc EXCEPT ![p] = "bufWrite"]
                           /\ UNCHANGED <<logData, ret>>
                   /\ UNCHANGED <<w, closed>>
    /\ UNCHANGED <<inputs, clock, sinks, upstream, rHeader, reqID, bodyBytes, proxyReq,
                   resp, rd, calls>>

\* responseBody, err := io.ReadAll(resp.Body); 500 and return when it fails,
\* else LogResponse when s.Config.LogResponses
BufRead(p) ==
    /\ pc[p] = "bufRead"
    /\ Up(p).end # ""
    /\ LET r == ReadAll(Up(p).segs, Up(p).end)
       IN  /\ trace' = [trace EXCEPT ![p] =
                 @ \o (<< Event("readAll", Len(r.data)) >> \o
                       IF r.err = "" /\ config[p].LogResponses
                       THEN << Event("logResponse", Len(r.data)) >> ELSE << >>)]
           /\ IF r.err # ""
              THEN /\ w' = [w EXCEPT ![p] =
                        HttpError(@, ErrReadingResponse,
                                  StatusInternalServerError, env[p].cap)]
                   /\ Return(p, resp[p])
                   /\ UNCHANGED <<chunk, logData, ret>>
              ELSE /\ chunk' = [chunk EXCEPT ![p] = [data |-> r.data, err |-> ""]]
                   /\ IF config[p].LogResponses
                      THEN LogCall(p, FormatResponse(reqID[p], Resp(p).Proto,
                                                     Resp(p).Status, Resp(p).Header,
                                                     r.data, clock),
                                   "bufWrite")
                      ELSE /\ pc' = [pc EXCEPT ![p] = "bufWrite"]
                           /\ UNCHANGED <<logData, ret>>
                   /\ UNCHANGED <<w, closed>>
    /\ UNCHANGED <<inputs, clock, sinks, upstream, rHeader, reqID, bodyBytes, proxyReq,
                   resp, rd, calls>>

\* BufWrite with the body cut as LogResponse cuts it
BufWrite_Truncated(p) ==
    /\ pc[p] = "bufWrite"
    /\ w' = [w EXCEPT ![p] =
          Write(@, SubSeq(chunk[p].data, 1, Min(Len(chunk[p].data), maxBodySize)),
                env[p].cap)]
    /\ trace' = [trace EXCEPT ![p] = Append(@, Event("write", Len(chunk[p].data)))]
    /\ Return(p, resp[p])
    /\ UNCHANGED <<inputs, clock, sinks, upstream, ret, rHeader, reqID, bodyBytes,
                   proxyReq, resp, rd, chunk, logData, calls>>

\* w.Write(responseBody), and ServeHTTP returns
BufWrite(p) ==
    /\ pc[p] = "bufWrite"
    /\ w' = [w EXCEPT ![p] = Write(@, chunk[p].data, env[p].cap)]
    /\ trace' = [trace EXCEPT ![p] =
          Append(@, Event(IF WriteOK(w[p], chunk[p].data, env[p].cap)
                          THEN "write" ELSE "writeFailed", Len(chunk[p].data)))]
    /\ Return(p, resp[p])
    /\ UNCHANGED <<inputs, clock, sinks, upstream, ret, rHeader, reqID, bodyBytes,
                   proxyReq, resp, rd, chunk, logData, calls>>

\* -------------------------------------------------------------- scenarios

Cfg(key, logRequests, logResponses, logToStdout, logFile) ==
    [Port |-> "8080",
     OpenAIBaseURL |-> "https://api.openai.com/v1", OpenAIAPIKey |-> key,
     LogRequests |-> logRequests, LogResponses |-> logResponses,
     LogToStdout |-> logToStdout, RequestLogFile |-> logFile]

\* an inbound header map: Accept with two values, and Authorization,
\* X-Request-Id and Host with the given values (<<>>: the header is absent)
InHeader(auth, xrid, host) ==
    LET given == ("Accept" :> <<"application/json", "text/event-stream">>)
                 @@ ("Authorization" :> auth) @@ ("X-Request-Id" :> xrid)
                 @@ ("Host" :> host)
    IN  [n \in {m \in DOMAIN given : given[m] # <<>>} |-> given[n]]

Req(shape, hdr, bodyErr) ==
    [Method |-> shape[1], Path |-> shape[2], RawQuery |-> shape[3],
     Proto |-> "HTTP/1.1", Header |-> hdr, bodyLen |-> shape[4],
     bodyErr |-> bodyErr]

\* method, path, raw query and the length of the body
ReqShapes ==
    { <<"GET", "/models", "limit=2", 0>> }
    \cup { <<"POST", "/chat/completions", "", n>> : n \in 1..MaxReqBody }
AuthValues ==
    { <<>>, <<"">>, <<"Bearer secret123">>, <<"", "Basic abc">>,
      <<"Basic abc", "Bearer secret123">> }
XridValues == { <<>>, <<"">>, <<"client-1">>, <<"client-1", "client-2">> }
HostValues == { <<>>, <<"proxy.local">> }

\* every request of the model
AllRequests ==
    { Req(sh, InHeader(a, x, h), FALSE) :
        sh \in ReqShapes, a \in AuthValues, x \in XridValues, h \in HostValues }
    \cup { Req(sh, InHeader(<<"Bearer secret123">>, x, <<>>), TRUE) :
             sh \in ReqShapes, x \in XridValues }

\* the requests of the scenarios in which the upstream and the client vary
BasicRequests ==
    { Req(<<"POST", "/chat/completions", "", 1>>,
          InHeader(<<"Bearer secret123">>, x, <<>>), FALSE) :
        x \in { <<>>, <<"client-1">> } }

\* a request with a body longer than LogResponse's maxBodySize, and requests
\* whose header map spells Host in other ways
SpecialRequests ==
    { Req(<<"POST", "/chat/completions", "", maxBodySize + 1>>,
          InHeader(<<"Bearer secret123">>, <<"client-1">>, <<>>), FALSE) }
    \cup { Req(<<"GET", "/models", "limit=2", 0>>,
               [n \in names \cup {"Accept"} |->
                   IF n = "Accept" THEN <<"application/json">>
                   ELSE <<"proxy.local", n>>],
               FALSE) :
             names \in { {"HOST"}, {"host"}, {"Host", "host"} } }

FailedHead == NoHead
PlainHead(ct) ==
    [ok |-> TRUE, Proto |-> "HTTP/1.1", Status |-> "200 OK", StatusCode |-> 200,
     Header |-> ("Content-Type" :> <<ct>>)]
RichHead(ct) ==
    [ok |-> TRUE, Proto |-> "HTTP/2.0", Status |-> "429 Too Many Requests",
     StatusCode |-> 429,
     Header |-> ("Content-Type" :> <<ct>>)
                @@ ("Authorization" :> <<"Bearer upstream-token">>)
                @@ ("Set-Cookie" :> <<"a=1", "b=2">>)]

\* the answers of the upstream to client.Do
AllHeads ==
    { FailedHead, PlainHead("application/json"), RichHead("application/json"),
      PlainHead("text/event-stream; charset=utf-8") }

Env(flusher, cap, outcomes, segLens, bodyLens) ==
    [flusher |-> flusher, cap |-> cap, outcomes |-> outcomes,
     segLens |-> segLens, bodyLens |-> bodyLens]

\* a client that takes everything and can flush, an upstream that fails or
\* answers with a one-byte body
PlainEnvs ==
    { Env(TRUE, Unlimited, {FailedHead, RichHead("application/json")}, {}, {1}) }

\* the same client, an upstream that answers with a one-byte body or with an
\* event stream of one-byte segments
BasicEnvs ==
    { Env(TRUE, Unlimited,
          {PlainHead("application/json"),
           RichHead("text/event-stream; charset=utf-8")},
          {1}, {1}) }

\* a client that takes everything, an upstream that answers with a body of
\* maxBodySize bytes or one more
LargeEnvs ==
    { Env(TRUE, Unlimited, {PlainHead("application/json")}, {},
          {maxBodySize, maxBodySize + 1}) }

\* every upstream, for a client that can flush and breaks after 0..MaxCap
\* bytes or never, and for one that cannot flush
AllEnvs ==
    { Env(f, cap, AllHeads, {0, 1, StreamBufSize + 1},
          {0, 1, maxBodySize, maxBodySize + 1}) :
        f \in {TRUE}, cap \in (0..MaxCap) \cup {Unlimited} }
    \cup { Env(FALSE, Unlimited, AllHeads, {0, 1, StreamBufSize + 1},
                {0, 1, maxBodySize, maxBodySize + 1}) }

Same(x) == [p \in Procs |-> x]
Own == [p \in Procs |-> p]

\* one handler, h1
Single(cfgs, rs, es) ==
    { [config |-> Same(c), req |-> Same(r), env |-> Same(e),
       active |-> {"h1"}, later |-> {}, src |-> Own] :
        c \in cfgs, r \in rs, e \in es }

\* The scenarios of Spec, each with one request: the request, the API key and
\* request logging vary against the basic upstreams; the upstream, the client
\* and response logging vary for the basic requests; the sinks and the
\* logging toggles vary for the basic requests and upstreams; the upstream
\* base URL varies for the special requests.
Scenarios ==
    Single({ Cfg(k, lq, TRUE, TRUE, "proxy.log") :
               k \in {"", "sk-key"}, lq \in BOOLEAN },
           AllRequests, PlainEnvs)
    \cup Single({ Cfg("sk-key", TRUE, lr, TRUE, "proxy.log") : lr \in BOOLEAN },
                BasicRequests, AllEnvs)
    \cup Single({ Cfg("sk-key", lq, lr, o, f) :
                    lq \in BOOLEAN, lr \in BOOLEAN, o \in BOOLEAN,
                    f \in {"", "proxy.log"} },
                BasicRequests, BasicEnvs)
    \cup Single({ [Cfg("sk-key", TRUE, TRUE, TRUE, "proxy.log")
                      EXCEPT !.OpenAIBaseURL = base] :
                    base \in {"https://api.openai.com/v1",
                              "http://localhost:11434/v1"} },
                SpecialRequests, LargeEnvs)

Init == \E sc \in Scenarios : InitOf(sc)

Step(p) ==
    \/ AssignID(p)
    \/ ReadBody(p)
    \/ LogReq(p)
    \/ FileWrite(p)
    \/ FileWriteDone(p)
    \/ StdoutWrite(p)
    \/ StdoutWriteDone(p)
    \/ Build(p)
    \/ Dispatch(p)
    \/ Commit(p)
    \/ Arrive(p)
    \/ StreamRead(p)
    \/ StreamWrite(p)
    \/ StreamNext(p)
    \/ CopyRead(p)
    \/ CopyWrite(p)
    \/ BufRead(p)
    \/ BufWrite(p)

Next == Tick \/ \E p \in Procs : Step(p)

Spec == Init /\ [][Next]_vars

\* ------------------------------------------- the same exchange, run twice

\* The request of h1 is handled again by h2 once h1 has returned: the same
\* request, the same client connection and the same upstream answer (src),
\* by a server that differs from the first in its two logging toggles only.
Twice(cfgs, rs, es) ==
    { [config |-> [p \in Procs |->
                     IF p = "h1" THEN c
                     ELSE [c EXCEPT !.LogRequests = ~@, !.LogResponses = ~@]],
       req |-> Same(r), env |-> Same(e),
       active |-> {"h1"}, later |-> {"h2"}, src |-> Same("h1")] :
        c \in cfgs, r \in rs, e \in es }

TwiceInit ==
    \E sc \in Twice({ Cfg("sk-key", TRUE, TRUE, TRUE, "proxy.log") },
                     BasicRequests, AllEnvs) : InitOf(sc)

\* the second run starts when the first has returned
StartAfter(p) ==
    /\ pc[p] = "waiting"
    /\ \A q \in Procs \ {p} : pc[q] = "done"
    /\ pc' = [pc EXCEPT ![p] = "start"]
    /\ UNCHANGED <<inputs, clock, sinks, upstream, locals>>

TwiceNext == Next \/ \E p \in Procs : StartAfter(p)

TwiceSpec == TwiceInit /\ [][TwiceNext]_vars

\* ------------------------------------------------------------ loadConfig

\* os.Getenv: the value of a variable, "" when it is not set
Getenv(environ_, name) == IF name \in DOMAIN environ_ THEN environ_[name] ELSE ""

\* strconv.ParseBool on the values of the model: the value and whether the
\* text was accepted
ParseBool(text) ==
    CASE text \in {"1", "t", "T", "TRUE", "true", "True"} -> [ok |-> TRUE, val |-> TRUE]
      [] text \in {"0", "f", "F", "FALSE", "false", "False"} -> [ok |-> TRUE, val |-> FALSE]
      [] OTHER -> [ok |-> FALSE, val |-> FALSE]

\* the parseBool closure of loadConfig
parseBool(environ_, envVar, defaultVal) ==
    LET val == Getenv(environ_, envVar)
    IN  IF val = "" THEN defaultVal
        ELSE IF ParseBool(val).ok THEN ParseBool(val).val ELSE defaultVal

\* strings.TrimSuffix(url, "/") on the base URLs of the model
TrimSlash(url) ==
    CASE url = "http://localhost:11434/v1/" -> "http://localhost:11434/v1"
      [] url = "https://example.test/v1/" -> "https://example.test/v1"
      [] OTHER -> url

\* the value of a flag variable after flag.Parse: the value given on the
\* command line, the default of the flag when it was not given
FlagValue(args_, name, default) ==
    IF name \in DOMAIN args_ THEN args_[name] ELSE default

\* the flags flag.Visit visits: those set by a flag.Parse that has run
VisitedFlags(args_, parsed) == IF parsed THEN DOMAIN args_ ELSE {}

\* a string setting: the flag, the environment variable when the flag
\* variable is empty
StringSetting(args_, environ_, flagName, envVar) ==
    LET flagVal == FlagValue(args_, flagName, "")
        envVal == Getenv(environ_, envVar)
    IN  IF envVal # "" /\ flagVal = "" THEN envVal ELSE flagVal

\* the value of a flag.BoolVar variable after flag.Parse, for the values
\* flag.Parse accepts (-req=false)
BoolFlagValue(args_, name, default) ==
    IF name \in DOMAIN args_ THEN ParseBool(args_[name]).val ELSE default

\* a logging toggle: the flag, then the environment variable unless flagsSet
ToggleSetting(args_, environ_, flagsSet, flagName, envVar) ==
    LET flagVal == BoolFlagValue(args_, flagName, TRUE)
    IN  IF ~flagsSet THEN parseBool(environ_, envVar, flagVal) ELSE flagVal

\* loadConfig: flag.Visit runs before flag.Parse, when no flag is set yet
loadConfig(args_, environ_) ==
    LET flagsSet == VisitedFlags(args_, FALSE) # {}
        port == StringSetting(args_, environ_, "port", "PORT")
        url == StringSetting(args_, environ_, "url", "OPENAI_BASE_URL")
    IN  [Port |-> IF port = "" THEN "8080" ELSE port,
         OpenAIBaseURL |-> IF url = "" THEN "https://api.openai.com/v1"
                           ELSE TrimSlash(url),
         OpenAIAPIKey |-> StringSetting(args_, environ_, "key", "OPENAI_API_KEY"),
         LogRequests |-> ToggleSetting(args_, environ_, flagsSet, "req", "LOG_REQUESTS"),
         LogResponses |-> ToggleSetting(args_, environ_, flagsSet, "resp", "LOG_RESPONSES"),
         LogToStdout |-> ToggleSetting(args_, environ_, flagsSet, "stdout", "LOG_TO_STDOUT"),
         RequestLogFile |-> StringSetting(args_, environ_, "file", "REQUEST_LOG_FILE")]

\* a function of the names that were given a value: None stands for a flag
\* that was not given, a variable that is not set
None == "<none>"
Given(f) == [n \in {m \in DOMAIN f : f[m] # None} |-> f[n]]

\* the command lines of the model
AllArgs ==
    { Given(("key" :> k) @@ ("req" :> r) @@ ("resp" :> o) @@ ("stdout" :> o)
            @@ ("port" :> s[1]) @@ ("url" :> s[2]) @@ ("file" :> s[3])) :
        k \in {None, "", "sk-flag"}, r \in {None, "true", "false"},
        o \in {None, "false"},
        s \in { <<None, None, None>>,
                <<"9090", "http://localhost:11434/v1/", "flag.log">> } }

\* the environments of the model
AllEnvirons ==
    { Given(("OPENAI_API_KEY" :> k) @@ ("LOG_REQUESTS" :> r)
            @@ ("LOG_RESPONSES" :> o) @@ ("LOG_TO_STDOUT" :> o)
            @@ ("PORT" :> s[1]) @@ ("OPENAI_BASE_URL" :> s[2])
            @@ ("REQUEST_LOG_FILE" :> s[3])) :
        k \in {None, "sk-env"}, r \in {None, "true", "false", "yes"},
        o \in {None, "0"},
        s \in { <<None, None, None>>,
                <<"3000", "https://example.test/v1/", "env.log">> } }

\* main starts: the process has its command line and environment, nothing
\* is configured and no request is served
ConfigInit ==
    /\ args \in AllArgs
    /\ environ \in AllEnvirons
    /\ boot = "loadConfig"
    /\ config = Same(Cfg("", FALSE, FALSE, FALSE, ""))
    /\ logger = NewRequestLogger("", FALSE)
    /\ req = Same(Req(<<"GET", "/models", "", 0>>, EmptyHeader, FALSE))
    /\ env = Same(Env(TRUE, Unlimited, {}, {}, {}))
    /\ src = Own
    /\ upstream = [s \in Procs |-> NoAnswer]
    /\ pc = [p \in Procs |-> "off"]
    /\ rHeader = [p \in Procs |-> EmptyHeader]
    /\ clock = 0
    /\ file = <<>>
    /\ stdout = <<>>
    /\ ret = [p \in Procs |-> ""]
    /\ reqID = [p \in Procs |-> ""]
    /\ bodyBytes = [p \in Procs |-> <<>>]
    /\ proxyReq = [p \in Procs |-> NoRequest]
    /\ resp = [p \in Procs |-> FALSE]
    /\ w = [p \in Procs |-> NewResponseWriter]
    /\ rd = [p \in Procs |-> NewReader]
    /\ chunk = [p \in Procs |-> NoChunk]
    /\ logData = [p \in Procs |-> NoLogData]
    /\ closed = [p \in Procs |-> FALSE]
    /\ calls = [p \in Procs |-> 0]
    /\ trace = [p \in Procs |-> <<>>]

\* config := loadConfig()
LoadConfig ==
    /\ boot = "loadConfig"
    /\ config' = Same(loadConfig(args, environ))
    /\ boot' = "newProxyServer"
    /\ UNCHANGED <<args, environ, logger, req, env, src, clock, sinks, upstream, pc,
                   locals>>

\* server, err := NewProxyServer(config), which builds the logger
NewProxyServer ==
    /\ boot = "newProxyServer"
    /\ logger' = NewRequestLogger(config["h1"].RequestLogFile, config["h1"].LogToStdout)
    /\ boot' = "serving"
    /\ UNCHANGED <<args, environ, config, req, env, src, clock, sinks, upstream, pc,
                   locals>>

ConfigNext == LoadConfig \/ NewProxyServer

ConfigSpec == ConfigInit /\ [][ConfigNext]_vars

\* ------------------------------------------------- two concurrent requests

\* Two requests are handled at once by one server, each with its own
\* upstream exchange; the server logs requests and responses to both sinks.
Both(cfgs, rs, es1, es2) ==
    { [config |-> Same(c), req |-> Same(r),
       env |-> [p \in Procs |-> IF p = "h1" THEN e1 ELSE e2],
       active |-> Procs, later |-> {}, src |-> Own] :
        c \in cfgs, r \in rs, e1 \in es1, e2 \in es2 }

ConcInit ==
    \E sc \in Both({ Cfg("sk-key", TRUE, lr, TRUE, "proxy.log") : lr \in BOOLEAN },
                    { Req(<<"POST", "/chat/completions", "", 1>>,
                          InHeader(<<"Bearer secret123">>, <<"client-1">>, <<>>),
                          FALSE) },
                    { Env(TRUE, Unlimited, { PlainHead("application/json") },
                          {}, {1}) },
                    { Env(TRUE, Unlimited,
                          { PlainHead("text/event-stream; charset=utf-8") },
                          {1}, {}) }) : InitOf(sc)

ConcSpec == ConcInit /\ [][Next]_vars

\* ------------------------------------------------------------ properties

RECURSIVE SumSeq(_)
SumSeq(q) == IF q = <<>> THEN 0 ELSE Head(q) + SumSeq(Tail(q))

Range(q) == { q[i] : i \in DOMAIN q }

\* the entries handler p has written to a sink, in order
RECURSIVE By(_, _)
By(sink, p) ==
    IF sink = <<>> THEN <<>>
    ELSE LET rest == By(SubSeq(sink, 1, Len(sink) - 1), p)
             e == sink[Len(sink)]
         IN  IF e.by = p THEN Append(rest, e) ELSE rest

\* the events of a trace with one of the given ops
RECURSIVE Count(_, _)
Count(tr, ops) ==
    IF tr = <<>> THEN 0
    ELSE Count(Tail(tr), ops) + (IF Head(tr).op \in ops THEN 1 ELSE 0)

\* ServeHTTP has returned from the buffered branch after reading the whole
\* upstream body
BufferedDone(p) ==
    /\ pc[p] = "done"
    /\ resp[p]
    /\ ~IsStreaming(Resp(p).Header)
    /\ Up(p).end \in {"eof", "eofWithLast"}

\* C1: for a non-streaming response whose body was read, of any length,
\* ServeHTTP has passed the client exactly the upstream body in one Write,
\* whatever the logging toggles; a client whose connection holds receives all
\* of it, also when the log record of the response was cut to maxBodySize.
C1_BufferedBodyRelayedWhole ==
    \A p \in Procs :
        BufferedDone(p) =>
            LET body == Bytes(0, SumSeq(Up(p).segs))
            IN  /\ Len(w[p].out) = 1
                /\ w[p].out[1].op = "write"
                /\ w[p].out[1].data = body
                /\ w[p].out[1].n = Min(Len(body), env[p].cap)
                /\ env[p].cap >= Len(body) => Received(w[p].out) = body
                /\ \A i \in DOMAIN file :
                      (file[i].by = p /\ file[i].rec.kind = "RESPONSE")
                          => Len(file[i].rec.body.text) = Min(Len(body), maxBodySize)

\* a response of maxBodySize + 1 bytes was logged cut and relayed whole
C1_Witness ==
    \E p \in Procs :
        /\ BufferedDone(p)
        /\ config[p].LogResponses
        /\ SumSeq(Up(p).segs) = maxBodySize + 1
        /\ Len(Received(w[p].out)) = maxBodySize + 1
        /\ \E i \in DOMAIN file : file[i].rec.body.more = "... [1 more bytes]"

\* http.NewRequest has built proxyReq and its headers are set
Built(p) == proxyReq[p].Method # ""

\* C2 (as claimed): an inbound request with an Authorization header of its
\* own, whatever its values, is forwarded with exactly those values and no
\* injected credential; one without is forwarded with the single value
\* "Bearer <credential>" when a credential is configured and with no
\* Authorization header when none is.
C2_InjectionOnlyWithoutHeader ==
    \A p \in Procs :
        Built(p) =>
            LET in == req[p].Header
                out == proxyReq[p].Header
                key == config[p].OpenAIAPIKey
            IN  IF "Authorization" \in DOMAIN in
                THEN /\ "Authorization" \in DOMAIN out
                     /\ out["Authorization"] = in["Authorization"]
                ELSE IF key # ""
                     THEN /\ "Authorization" \in DOMAIN out
                          /\ out["Authorization"] = << "Bearer " \o key >>
                     ELSE "Authorization" \notin DOMAIN out

\* the Authorization header of proxyReq is the inbound one, or the injected
\* credential, or absent when there is neither
AuthorizationForwardedOrInjected(in, out, key) ==
    IF "Authorization" \in DOMAIN out
    THEN \/ "Authorization" \in DOMAIN in /\ out["Authorization"] = in["Authorization"]
         \/ key # "" /\ out["Authorization"] = << "Bearer " \o key >>
    ELSE "Authorization" \notin DOMAIN in /\ key = ""

\* method, target and body of proxyReq are those of the inbound request
LineAndBodyReplayed(p) ==
    /\ proxyReq[p].Method = req[p].Method
    /\ proxyReq[p].URL =
          config[p].OpenAIBaseURL \o req[p].Path
              \o (IF req[p].RawQuery # "" THEN "?" \o req[p].RawQuery ELSE "")
    /\ proxyReq[p].Body = RequestBody(req[p].bodyLen)

\* header n is on proxyReq exactly when it is inbound and is not Host in any
\* spelling, with the inbound values
HeaderReplayed(in, out, n) ==
    /\ n \in DOMAIN out <=> (n \in DOMAIN in /\ ToLower(n) # "host")
    /\ n \in DOMAIN out => out[n] = in[n]

C4_OneCorrelationId ==
    \A p \in Procs :
        /\ \A i \in DOMAIN file : file[i].by = p => file[i].rec.id = reqID[p]
        /\ \A i \in DOMAIN stdout : stdout[i].by = p => stdout[i].rec.id = reqID[p]
        /\ logData[p].kind # "" => logData[p].id = reqID[p]
        /\ (pc[p] \notin {"off", "waiting", "start"}
            /\ HeaderGet(req[p].Header, "X-Request-ID") # "")
              => reqID[p] = req[p].Header["X-Request-Id"][1]

\* a request without X-Request-ID, handled after the clock had advanced, has
\* its request record and two chunk records in the file under one
\* synthesized id
C4_Witness ==
    \E p \in Procs :
        LET mine == By(file, p)
        IN  /\ "X-Request-Id" \notin DOMAIN req[p].Header
            /\ reqID[p] = "req-1"
            /\ Len(mine) >= 3
            /\ mine[1].rec.kind = "REQUEST"
            /\ mine[2].rec.kind = "RESPONSE"
            /\ mine[3].rec.kind = "RESPONSE"
            /\ \A i \in DOMAIN mine : mine[i].rec.id = "req-1"

\* the header lines of a record, of all names
HeaderLinesOf(rec) == UNION { Range(rec.headers[n]) : n \in DOMAIN rec.headers }

\* record rec written by handler p renders the Authorization request header
\* as the one redacted line and no value of it, and response headers as sent
Redacted(p, rec) ==
    /\ (rec.kind = "REQUEST" /\ "Authorization" \in DOMAIN req[p].Header) =>
          /\ rec.headers["Authorization"] = << "  Authorization: Bearer [REDACTED]" >>
          /\ \A v \in Range(req[p].Header["Authorization"]) :
                ("  Authorization: " \o v) \notin HeaderLinesOf(rec)
    /\ rec.kind = "REQUEST" =>
          \A n \in DOMAIN rHeader[p] \ {"Authorization"} :
             rec.headers[n] = [i \in 1..Len(rHeader[p][n]) |->
                                  "  " \o n \o ": " \o rHeader[p][n][i]]
    /\ rec.kind = "RESPONSE" =>
          /\ DOMAIN rec.headers = DOMAIN Resp(p).Header
          /\ \A n \in DOMAIN Resp(p).Header :
                rec.headers[n] = [i \in 1..Len(Resp(p).Header[n]) |->
                                     "  " \o n \o ": " \o Resp(p).Header[n][i]]

\* C5: every request record renders an inbound Authorization header, of any
\* values, as the line "  Authorization: Bearer [REDACTED]" and renders none of
\* its values; response records render the response headers verbatim.
C5_AuthorizationRedacted ==
    /\ \A i \in DOMAIN file : Redacted(file[i].by, file[i].rec)
    /\ \A i \in DOMAIN stdout : Redacted(stdout[i].by, stdout[i].rec)

\* a request with two Authorization values and a response with an
\* Authorization header of its own have both been recorded
C5_Witness ==
    \E i, j \in DOMAIN file :
        /\ file[i].rec.kind = "REQUEST"
        /\ "Authorization" \in DOMAIN req[file[i].by].Header
        /\ req[file[i].by].Header["Authorization"] = <<"Basic abc", "Bearer secret123">>
        /\ file[i].rec.headers["Authorization"] = << "  Authorization: Bearer [REDACTED]" >>
        /\ file[j].rec.kind = "RESPONSE"
        /\ file[j].by = file[i].by
        /\ "Authorization" \in DOMAIN file[j].rec.headers
        /\ file[j].rec.headers["Authorization"] = << "  Authorization: Bearer upstream-token" >>

\* C6 (as claimed): the same request with the same upstream and client
\* behaviour, handled once with request and response logging enabled and
\* once with both disabled, gives the client the same status, headers and
\* body bytes.
C6_LoggingInvisibleToClient ==
    (pc["h1"] = "done" /\ pc["h2"] = "done") =>
        /\ w["h1"].status = w["h2"].status
        /\ w["h1"].sentHdr = w["h2"].sentHdr
        /\ Received(w["h1"].out) = Received(w["h2"].out)

\* the handler relays an event stream to a client that can flush
StreamingTo(p) ==
    /\ resp[p]
    /\ IsStreaming(Resp(p).Header)
    /\ env[p].flusher

\* C7 (as claimed): for an event-stream response, with response logging
\* enabled or disabled, every chunk written to the client is followed by a
\* flush before anything else is written.
C7_EveryStreamWriteFlushed ==
    \A p \in Procs :
        StreamingTo(p) =>
            \A i \in DOMAIN w[p].out :
                (w[p].out[i].op = "write" /\ w[p].out[i].n = Len(w[p].out[i].data))
                    => /\ i < Len(w[p].out) \/ pc[p] \notin {"copyRead", "done"}
                       /\ i < Len(w[p].out) => w[p].out[i + 1].op = "flush"

\* the handler is in, or has returned from, the streaming loop
StreamMode(p) ==
    /\ resp[p]
    /\ pc[p] \notin {"commit"}
    /\ BodyMode(Resp(p).Header, config[p].LogResponses, env[p].flusher) = "stream"

\* the response records of handler p on a sink, in order
ResponseRecords(sink, p) ==
    SelectSeq(By(sink, p), LAMBDA e : e.rec.kind = "RESPONSE")

\* the writes of whole chunks to the client, in order
WholeWrites(out) ==
    SelectSeq(out, LAMBDA e : e.op = "write" /\ e.n = Len(e.data))

\* the k-th response record of p on the sink is the k-th chunk written, under
\* the id, status and headers of the transaction
RecordsAreChunks(sink, p) ==
    LET recs == ResponseRecords(sink, p)
        writes == WholeWrites(w[p].out)
    IN  /\ Len(recs) <= Len(writes)
        /\ pc[p] \in {"streamNext", "streamRead", "streamWrite", "done"}
              => Len(recs) = Len(writes)
        /\ \A k \in DOMAIN recs :
              /\ recs[k].rec.body.text = writes[k].data
              /\ recs[k].rec.body.more = ""
              /\ recs[k].rec.id = reqID[p]
              /\ recs[k].rec.line = Resp(p).Proto \o " " \o Resp(p).Status
              /\ recs[k].rec.headers = ResponseHeaderLines(Resp(p).Header)

\* C8: in the streaming loop every read of a non-empty chunk, of at most 4096
\* bytes, is followed by the write of that chunk, a flush and one LogResponse
\* call with that chunk, in this order and before the next read; the k chunks
\* written are the k response records, in order, under the transaction's id,
\* status and headers; an empty read is followed by no write and no record.
C8_StreamChunkOrder ==
    \A p \in Procs :
        StreamMode(p) =>
            LET tr == trace[p]
            IN  /\ \A i \in DOMAIN tr :
                      /\ tr[i].op = "read" =>
                            /\ tr[i].n <= StreamBufSize
                            /\ tr[i - 1].op \in {"writeHeader", "read", "logResponse"}
                            /\ tr[i - 1].op = "read" => tr[i - 1].n = 0
                            /\ (tr[i].n > 0 /\ i < Len(tr)) =>
                                  /\ tr[i + 1].op \in {"write", "writeFailed"}
                                  /\ tr[i + 1].n = tr[i].n
                            /\ (tr[i].n > 0 /\ i = Len(tr)) => pc[p] = "streamWrite"
                            /\ (tr[i].n = 0 /\ i < Len(tr)) => tr[i + 1].op = "read"
                      /\ tr[i].op = "write" =>
                            /\ tr[i - 1] = Event("read", tr[i].n)
                            /\ i + 2 <= Len(tr)
                            /\ tr[i + 1] = Event("flush", 0)
                            /\ tr[i + 2] = Event("logResponse", tr[i].n)
                      /\ tr[i].op = "flush" => tr[i - 1].op = "write"
                      /\ tr[i].op = "logResponse" => tr[i - 1].op = "flush"
                /\ Len(WholeWrites(w[p].out)) = Count(tr, {"write"})
                /\ \A i \in DOMAIN w[p].out :
                      (w[p].out[i].op = "write" /\ w[p].out[i].n = Len(w[p].out[i].data))
                          => (i < Len(w[p].out) /\ w[p].out[i + 1].op = "flush")
                /\ logger.LogToFile => RecordsAreChunks(file, p)
                /\ logger.LogToStdout => RecordsAreChunks(stdout, p)

\* after an empty read, a segment of 4097 bytes was read as chunks of 4096
\* bytes and of one byte, each written, flushed and recorded
C8_Witness ==
    \E p \in Procs :
        /\ StreamMode(p)
        /\ pc[p] = "done"
        /\ Count(trace[p], {"write"}) = 2
        /\ \E i \in DOMAIN trace[p] : trace[p][i] = Event("read", 0) /\ i < Len(trace[p])
        /\ Len(ResponseRecords(file, p)) = 2
        /\ Len(ResponseRecords(file, p)[1].rec.body.text) = StreamBufSize
        /\ Len(ResponseRecords(file, p)[2].rec.body.text) = 1
        /\ w[p].out[Len(w[p].out)].op = "flush"

\* the events of a trace with one of the given ops that carry bytes
RECURSIVE CountBytes(_, _)
CountBytes(tr, ops) ==
    IF tr = <<>> THEN 0
    ELSE CountBytes(Tail(tr), ops)
            + (IF Head(tr).op \in ops /\ Head(tr).n > 0 THEN 1 ELSE 0)

\* the request records of handler p on a sink, in order
RequestRecords(sink, p) ==
    SelectSeq(By(sink, p), LAMBDA e : e.rec.kind = "REQUEST")

\* what C9 says of request records and of the response records of a
\* non-streaming response: at most one of each, and one request record in a
\* finished run exactly when request logging is enabled and the body was read
RecordsAtMostOne(p) ==
    LET nReq == Count(trace[p], {"logRequest"})
        nResp == Count(trace[p], {"logResponse"})
    IN  /\ nReq <= 1
        /\ pc[p] = "done" => (nReq = 1 <=> (config[p].LogRequests /\ ~req[p].bodyErr))
        /\ (resp[p] /\ ~IsStreaming(Resp(p).Header)) => nResp <= 1
        /\ (pc[p] = "done" /\ logger.LogToFile) =>
              /\ Len(RequestRecords(file, p)) = nReq
              /\ Len(ResponseRecords(file, p)) = nResp
        /\ (pc[p] = "done" /\ logger.LogToStdout) =>
              /\ Len(RequestRecords(stdout, p)) = nReq
              /\ Len(ResponseRecords(stdout, p)) = nResp

\* C9 (as claimed): a run produces at most one request record, exactly one
\* iff request logging is enabled and the body was read; at most one response
\* record for a non-streaming response; and for a streaming response with
\* response logging one response record per chunk received from the
\* upstream, a chunk whose write to the client fails included.
C9_RecordPerReceivedChunk ==
    \A p \in Procs :
        /\ RecordsAtMostOne(p)
        /\ (StreamMode(p) /\ pc[p] = "done") =>
              Count(trace[p], {"logResponse"}) = CountBytes(trace[p], {"read"})

\* C9 (amended): as C9, but a streaming response with response logging
\* produces one response record per chunk received and written to the
\* client; the chunk whose write fails, which ends the loop, produces none.
C9_RecordPerWrittenChunk ==
    \A p \in Procs :
        /\ RecordsAtMostOne(p)
        /\ StreamMode(p) =>
              /\ Count(trace[p], {"logResponse"}) = Count(trace[p], {"write"})
              /\ Count(trace[p], {"writeFailed"}) <= 1
              /\ pc[p] = "done" =>
                    CountBytes(trace[p], {"read"})
                        = Count(trace[p], {"write"}) + Count(trace[p], {"writeFailed"})
              /\ Count(trace[p], {"writeFailed"}) = 1 =>
                    /\ pc[p] = "done"
                    /\ trace[p][Len(trace[p])].op = "writeFailed"

\* a stream of two chunks to a client that breaks after the first: one
\* request record, one response record, no record of the second chunk
C9_Witness ==
    \E p \in Procs :
        /\ StreamMode(p)
        /\ pc[p] = "done"
        /\ CountBytes(trace[p], {"read"}) = 2
        /\ Count(trace[p], {"write"}) = 1
        /\ Count(trace[p], {"writeFailed"}) = 1
        /\ Len(ResponseRecords(file, p)) = 1
        /\ Len(RequestRecords(file, p)) = 1

\* C10 (as claimed): the writes of two handlers to one sink are serialized by
\* a lock of that sink: no two handlers are inside the write of a record to
\* the file at once, nor inside the write of a record to the console.
C10_SinkWritesSerialized ==
    \A p, q \in Procs :
        p # q =>
            /\ ~(pc[p] = "inFileW" /\ pc[q] = "inFileW")
            /\ ~(pc[p] = "inStdoutW" /\ pc[q] = "inStdoutW")

\* the events of a trace with one of the given ops, in order
OpsOf(tr, ops) == SelectSeq(tr, LAMBDA e : e.op \in ops)

\* the body handler p passed to its k-th LogResponse call: the chunk just
\* written in the streaming loop, the whole upstream body otherwise
LoggedBody(p, k) ==
    IF IsStreaming(Resp(p).Header)
    THEN WholeWrites(w[p].out)[k].data
    ELSE Bytes(0, SumSeq(Up(p).segs))

\* the body section of a response record for a body: the 10000-byte limit
\* and the three lines are written out here as the claim states them
RendersResponseBody(section, body) ==
    LET L == Len(body)
    IN  /\ L > 10000 =>
              /\ section.label = "Body (truncated to 10000 bytes):"
              /\ section.text = SubSeq(body, 1, 10000)
              /\ section.more = "... [" \o ToString(L - 10000) \o " more bytes]"
        /\ (0 < L /\ L <= 10000) =>
              /\ section.label = "Body:"
              /\ section.text = body
              /\ section.more = ""
        /\ L = 0 => section = [label |-> "", text |-> <<>>, more |-> ""]

\* the records of handler p on a sink render the bodies as C11 says
BodiesRendered(sink, p) ==
    LET reqs == RequestRecords(sink, p)
        resps == ResponseRecords(sink, p)
        calls_ == OpsOf(trace[p], {"logResponse"})
    IN  /\ \A k \in DOMAIN reqs :
              IF req[p].bodyLen > 0
              THEN /\ reqs[k].rec.body.label = "Body:"
                   /\ reqs[k].rec.body.text = RequestBody(req[p].bodyLen)
                   /\ reqs[k].rec.body.more = ""
              ELSE reqs[k].rec.body = [label |-> "", text |-> <<>>, more |-> ""]
        /\ Len(resps) <= Len(calls_)
        /\ \A k \in DOMAIN resps :
              /\ Len(LoggedBody(p, k)) = calls_[k].n
              /\ RendersResponseBody(resps[k].rec.body, LoggedBody(p, k))

\* C11: a response record renders a body of L > 10000 bytes as the line
\* "Body (truncated to 10000 bytes):", its first 10000 bytes and the line
\* "... [<L-10000> more bytes]", a body of 0 < L <= 10000 bytes as "Body:" and
\* the whole body, and an empty body as no section; a request record
\* renders a body of any length L > 0 as "Body:" and all its bytes.
C11_BodyRendering ==
    \A p \in Procs :
        /\ logger.LogToFile => BodiesRendered(file, p)
        /\ logger.LogToStdout => BodiesRendered(stdout, p)

\* a request body of 10001 bytes is recorded whole and the response body of
\* 10001 bytes cut to 10000 with one more byte announced
C11_Witness ==
    \E p \in Procs :
        /\ req[p].bodyLen = 10001
        /\ Len(RequestRecords(file, p)) = 1
        /\ Len(RequestRecords(file, p)[1].rec.body.text) = 10001
        /\ Len(ResponseRecords(stdout, p)) = 1
        /\ Len(ResponseRecords(stdout, p)[1].rec.body.text) = 10000
        /\ ResponseRecords(stdout, p)[1].rec.body.more = "... [1 more bytes]"
        /\ ResponseRecords(stdout, p)[1].rec.body.label
              = "Body (truncated to 10000 bytes):"

\* C12: no header of proxyReq is the Host header, in any spelling, and the
\* Host of proxyReq is the host of the upstream base URL.
C12_HostNotCopied ==
    \A p \in Procs :
        Built(p) =>
            /\ \A n \in DOMAIN proxyReq[p].Header : ToLower(n) # "host"
            /\ proxyReq[p].Host = URLHost(config[p].OpenAIBaseURL)
            /\ \A n \in DOMAIN req[p].Header :
                  ToLower(n) = "host" =>
                      proxyReq[p].Host \notin Range(req[p].Header[n])

\* a request that spells the header "HOST" was rebuilt for the second base
\* URL, with the other header copied
C12_Witness ==
    \E p \in Procs :
        /\ Built(p)
        /\ "HOST" \in DOMAIN req[p].Header
        /\ proxyReq[p].Host = "localhost:11434"
        /\ proxyReq[p].URL = "http://localhost:11434/v1/models?limit=2"
        /\ DOMAIN proxyReq[p].Header = {"Accept", "Authorization", "X-Request-Id"}

\* the value loadConfig gives a setting whose flag was given: the flag's
\* value, the base URL without its final slash
FlagWins(cfg, args_) ==
    /\ "port" \in DOMAIN args_ => cfg.Port = args_["port"]
    /\ "url" \in DOMAIN args_ => cfg.OpenAIBaseURL = TrimSlash(args_["url"])
    /\ "key" \in DOMAIN args_ => cfg.OpenAIAPIKey = args_["key"]
    /\ "file" \in DOMAIN args_ => cfg.RequestLogFile = args_["file"]
    /\ "req" \in DOMAIN args_ => cfg.LogRequests = (args_["req"] = "true")
    /\ "resp" \in DOMAIN args_ => cfg.LogResponses = (args_["resp"] = "true")
    /\ "stdout" \in DOMAIN args_ => cfg.LogToStdout = (args_["stdout"] = "true")

\* C13 (as claimed): every setting whose flag was given on the command line
\* has the flag's value in the Config loadConfig returns, whatever the
\* environment holds; the environment decides only the settings whose flag
\* was not given.
C13_FlagsTakePrecedence ==
    boot # "loadConfig" => FlagWins(config["h1"], args)

\* the client was sent a local error: the status, the plain-text headers of
\* http.Error and the message as the only write
LocalError(wr, code, msg) ==
    /\ wr.status = code
    /\ wr.sentHdr = ("Content-Type" :> <<"text/plain; charset=utf-8">>)
                    @@ ("X-Content-Type-Options" :> <<"nosniff">>)
    /\ Len(wr.out) = 1
    /\ wr.out[1].op = "write"
    /\ wr.out[1].data = msg

\* handler p has returned from the branch of a streaming response to log
\* for a client that cannot flush
NoFlusherDone(p) ==
    /\ pc[p] = "done"
    /\ resp[p]
    /\ BodyMode(Resp(p).Header, config[p].LogResponses, env[p].flusher) = "noFlusher"

\* C14 (as claimed): for a streaming response with response logging enabled
\* and a client writer that cannot flush, the client receives status 500
\* with the plain-text body "Streaming not supported" and no upstream body
\* byte.
C14_NoFlusherIsLocalError ==
    \A p \in Procs :
        NoFlusherDone(p) =>
            LocalError(w[p], StatusInternalServerError, ErrStreamingNotSupported)

\* handler p has returned because reading the inbound body failed
BodyReadFailed(p) == pc[p] = "done" /\ req[p].bodyErr

\* C15: when reading the inbound body fails the client is sent status 500
\* and the handler returns: no outbound request is built, client.Do is not
\* called, and no request or response record is made or written.
C15_BodyReadFailure ==
    \A p \in Procs :
        /\ req[p].bodyErr =>
              /\ proxyReq[p] = NoRequest
              /\ calls[p] = 0
              /\ Up(p).state = "none"
              /\ ~resp[p]
              /\ trace[p] = <<>>
              /\ logData[p] = NoLogData
              /\ By(file, p) = <<>>
              /\ By(stdout, p) = <<>>
              /\ pc[p] \in {"off", "waiting", "start", "readBody", "done"}
        /\ BodyReadFailed(p) =>
              LocalError(w[p], StatusInternalServerError, ErrReadingRequestBody)

\* a request whose body cannot be read was answered with 500 although
\* request logging is enabled
C15_Witness ==
    \E p \in Procs :
        /\ BodyReadFailed(p)
        /\ config[p].LogRequests
        /\ w[p].status = 500
        /\ Received(w[p].out) = ErrReadingRequestBody
        /\ reqID[p] # ""

\* handler p has returned because client.Do failed
DispatchFailed(p) == pc[p] = "done" /\ calls[p] > 0 /\ ~resp[p]

\* C16: client.Do is called at most once per request; when it fails the
\* client is sent status 502 with no upstream header or body byte, no
\* response record is made, and the request record, when request logging is
\* enabled, is already on the sinks.
C16_DispatchFailure ==
    \A p \in Procs :
        /\ calls[p] <= 1
        /\ pc[p] \in {"commit", "streamRead", "bufRead", "copyRead"} => calls[p] = 1
        /\ DispatchFailed(p) =>
              /\ calls[p] = 1
              /\ LocalError(w[p], StatusBadGateway, ErrForwarding)
              /\ Up(p).segs = <<>>
              /\ Count(trace[p], {"logResponse", "writeHeader", "read", "readAll"}) = 0
              /\ ~closed[p]
              /\ LET n == IF config[p].LogRequests THEN 1 ELSE 0
                 IN  /\ Count(trace[p], {"logRequest"}) = n
                     /\ logger.LogToFile =>
                           /\ Len(RequestRecords(file, p)) = n
                           /\ ResponseRecords(file, p) = <<>>
                     /\ logger.LogToStdout =>
                           /\ Len(RequestRecords(stdout, p)) = n
                           /\ ResponseRecords(stdout, p) = <<>>

\* a failed dispatch was answered with 502 after the request record was
\* written
C16_Witness ==
    \E p \in Procs :
        /\ DispatchFailed(p)
        /\ w[p].status = 502
        /\ Received(w[p].out) = ErrForwarding
        /\ Len(RequestRecords(file, p)) = 1
        /\ Len(By(file, p)) = 1

\* handler p is past w.WriteHeader(resp.StatusCode)
Committed(p) == resp[p] /\ pc[p] # "commit"

\* C17: once client.Do has returned a response, nothing is written to the
\* client before the commit; the commit sends the upstream status with every
\* upstream header and all its values; and on every later path, the error
\* paths included, the status and headers the client was sent stay those.
C17_HeadersThenStatusThenBody ==
    \A p \in Procs :
        /\ (resp[p] /\ pc[p] = "commit") =>
              /\ ~w[p].wroteHeader
              /\ w[p].out = <<>>
              /\ w[p].hdr = EmptyHeader
        /\ Committed(p) =>
              /\ w[p].wroteHeader
              /\ w[p].status = Resp(p).StatusCode
              /\ w[p].sentHdr = Resp(p).Header
              /\ trace[p] # <<>>
              /\ LET first == CHOOSE i \in DOMAIN trace[p] :
                                 trace[p][i].op \notin {"logRequest"}
                 IN  trace[p][first].op = "writeHeader"
        /\ w[p].out # <<>> => w[p].wroteHeader

\* a 429 response with a two-valued Set-Cookie header whose body could not
\* be read: the client has the upstream status and headers and the text of
\* the local error
C17_Witness ==
    \E p \in Procs :
        /\ Committed(p)
        /\ pc[p] = "done"
        /\ w[p].status = 429
        /\ "Set-Cookie" \in DOMAIN w[p].sentHdr
        /\ w[p].sentHdr["Set-Cookie"] = <<"a=1", "b=2">>
        /\ Received(w[p].out) = ErrReadingResponse
        /\ HeaderGet(w[p].hdr, "Content-Type") = "text/plain; charset=utf-8"

\* the bytes passed to the Writes of the client, in order
RECURSIVE Written(_)
Written(out) ==
    IF out = <<>> THEN <<>>
    ELSE Written(SubSeq(out, 1, Len(out) - 1)) \o out[Len(out)].data

\* the upstream body of p as far as it has arrived
Arrived(p) == Bytes(0, SumSeq(Up(p).segs))

\* C18: the streaming loop reads again only while no read has returned an
\* error and no write has failed; it returns on the first of these; a chunk
\* whose write failed is not recorded; bytes returned together with a read
\* error, io.EOF included, are written, flushed and recorded before the
\* handler returns; and the client is sent the upstream status and upstream
\* bytes only, never an error status or an error text.
C18_StreamLoopStops ==
    \A p \in Procs :
        StreamMode(p) =>
            LET tr == trace[p]
                failed == Count(tr, {"writeFailed"})
            IN  /\ pc[p] \in {"streamRead", "streamWrite", "streamNext", "done",
                              "fileW", "inFileW", "stdoutW", "inStdoutW"}
                /\ pc[p] = "streamRead" => (chunk[p].err = "" /\ failed = 0)
                /\ pc[p] = "done" =>
                      /\ chunk[p].err # "" \/ failed = 1
                      /\ failed = 1 =>
                            /\ tr[Len(tr)].op = "writeFailed"
                            /\ tr[Len(tr) - 1] = Event("read", tr[Len(tr)].n)
                            /\ Count(tr, {"logResponse"}) = Count(tr, {"write"})
                      /\ failed = 0 =>
                            /\ rd[p].abs = SumSeq(Up(p).segs)
                            /\ Written(w[p].out) = Arrived(p)
                            /\ Up(p).end \in {"eof", "err"} =>
                                  tr[Len(tr)] = Event("read", 0)
                            /\ Up(p).end \in {"eofWithLast", "errWithLast"} =>
                                  /\ tr[Len(tr)].op = "logResponse"
                                  /\ tr[Len(tr)].n > 0
                                  /\ w[p].out[Len(w[p].out)].op = "flush"
                                  /\ logger.LogToFile =>
                                        Len(ResponseRecords(file, p))
                                            = Count(tr, {"write"})
                /\ w[p].status = Resp(p).StatusCode
                /\ w[p].sentHdr = Resp(p).Header
                /\ Written(w[p].out) = SubSeq(Arrived(p), 1, Len(Written(w[p].out)))

\* a stream of two chunks whose second came together with a read error was
\* relayed and recorded whole
C18_Witness ==
    \E p \in Procs :
        /\ StreamMode(p)
        /\ pc[p] = "done"
        /\ Up(p).end = "errWithLast"
        /\ Up(p).segs = <<1, 1>>
        /\ chunk[p].err = "error"
        /\ Len(ResponseRecords(file, p)) = 2
        /\ Received(w[p].out) = Bytes(0, 2)
        /\ w[p].status = Resp(p).StatusCode

\* C19: when ServeHTTP has returned, resp.Body has been closed exactly when
\* client.Do had returned a response, on every path; it is not closed while
\* the handler runs, and never when there is no response.
C19_BodyClosedOnReturn ==
    \A p \in Procs :
        /\ pc[p] = "done" => (closed[p] <=> resp[p])
        /\ pc[p] # "done" => ~closed[p]
        /\ closed[p] => calls[p] = 1

\* the handler returned from the streaming loop on a failed write and the
\* body is closed
C19_Witness ==
    \E p \in Procs :
        /\ pc[p] = "done"
        /\ closed[p]
        /\ StreamMode(p)
        /\ Count(trace[p], {"writeFailed"}) = 1
        /\ rd[p].abs <= SumSeq(Up(p).segs)

\* the order of the records of handler p on a sink and of the steps of the
\* handler, as C20 states it
ObservedInOrder(sink, p) ==
    LET mine == By(sink, p)
        reqs == RequestRecords(sink, p)
        resps == ResponseRecords(sink, p)
        buffered == resp[p] /\ ~IsStreaming(Resp(p).Header)
    IN  /\ reqs # <<>> =>
              /\ ~req[p].bodyErr
              /\ bodyBytes[p] = RequestBody(req[p].bodyLen)
              /\ reqs[1].rec.body.text = bodyBytes[p]
        /\ (pc[p] = "dispatch" \/ calls[p] > 0) => Len(reqs) = 1
        /\ calls[p] = 0 => resps = <<>>
        /\ mine # <<>> =>
              /\ mine[1].rec.kind = "REQUEST"
              /\ \A i \in 2..Len(mine) : mine[i].rec.kind = "RESPONSE"
        /\ resps # <<>> =>
              /\ Committed(p)
              /\ w[p].wroteHeader
              /\ w[p].status = Resp(p).StatusCode
        /\ (buffered /\ resps # <<>>) =>
              /\ Len(resps) = 1
              /\ Up(p).end \in {"eof", "eofWithLast"}
              /\ trace[p][Len(trace[p]) - (IF w[p].out = <<>> THEN 0 ELSE 1)]
                    = Event("logResponse", SumSeq(Up(p).segs))
        /\ (buffered /\ w[p].out # <<>> /\ Up(p).end \in {"eof", "eofWithLast"}) =>
              Len(resps) = 1
        /\ (buffered /\ pc[p] = "done" /\ Up(p).end \in {"err", "errWithLast"}) =>
              /\ resps = <<>>
              /\ Count(trace[p], {"logResponse"}) = 0
              /\ Written(w[p].out) = ErrReadingResponse

\* C20: with request and response logging enabled, the request record is
\* written after the inbound body is buffered and before client.Do is
\* called; every response record is written after it and after the status
\* is committed; the response record of a buffered response is written
\* after the whole body is read and before the body is written to the
\* client; and when that read fails there is no response record and the
\* client gets no upstream body byte.
C20_ObservationOrder ==
    \A p \in Procs :
        (config[p].LogRequests /\ config[p].LogResponses) =>
            /\ logger.LogToFile => ObservedInOrder(file, p)
            /\ logger.LogToStdout => ObservedInOrder(stdout, p)

\* a buffered response was recorded on both sinks after the request record
\* and then written to the client
C20_Witness ==
    \E p \in Procs :
        /\ config[p].LogRequests /\ config[p].LogResponses
        /\ BufferedDone(p)
        /\ Len(By(file, p)) = 2
        /\ Len(By(stdout, p)) = 2
        /\ By(file, p)[2].rec.kind = "RESPONSE"
        /\ Len(w[p].out) = 1
        /\ trace[p][Len(trace[p])].op = "write"

\* record rec of a transaction whose inbound request has no Authorization
\* header shows nothing of the credential: a request record has no
\* Authorization section and exactly the headers of r, and no header line of
\* the record renders the key
CredentialFree(p, rec) ==
    /\ rec.kind = "REQUEST" =>
          /\ \A n \in DOMAIN rec.headers : ToLower(n) # "authorization"
          /\ DOMAIN rec.headers = DOMAIN req[p].Header \cup {"X-Request-Id"}
    /\ \A n \in DOMAIN rec.headers :
          \A i \in DOMAIN rec.headers[n] :
              rec.headers[n][i] \notin
                  { "  " \o n \o ": " \o config[p].OpenAIAPIKey,
                    "  " \o n \o ": Bearer " \o config[p].OpenAIAPIKey }

\* C21: for an inbound request without Authorization and a configured
\* credential, the credential goes to the outbound request only: r.Header
\* never gets an Authorization header, and no record of the transaction, in
\* the making or on a sink, has an Authorization request-header line or a
\* line with the credential.
C21_CredentialNotRecorded ==
    \A p \in Procs :
        ("Authorization" \notin DOMAIN req[p].Header /\ config[p].OpenAIAPIKey # "") =>
            /\ "Authorization" \notin DOMAIN rHeader[p]
            /\ logData[p].kind # "" => CredentialFree(p, logData[p])
            /\ \A i \in DOMAIN file : file[i].by = p => CredentialFree(p, file[i].rec)
            /\ \A i \in DOMAIN stdout : stdout[i].by = p => CredentialFree(p, stdout[i].rec)

\* the credential was injected into the outbound request of a request
\* without Authorization whose request and response records are on the file
C21_Witness ==
    \E p \in Procs :
        /\ "Authorization" \notin DOMAIN req[p].Header
        /\ Built(p)
        /\ "Authorization" \in DOMAIN proxyReq[p].Header
        /\ proxyReq[p].Header["Authorization"] = << "Bearer sk-key" >>
        /\ Len(RequestRecords(file, p)) = 1
        /\ Len(ResponseRecords(file, p)) = 1
        /\ "Authorization" \in DOMAIN ResponseRecords(file, p)[1].rec.headers

\* ------------------------------------------------------------ termination

\* Spec with the scheduling that ServeHTTP runs under: a handler that can take
\* a step takes one, since each blocking call of it returns, and the upstream
\* body it waits for goes on until it has ended (Arrive is a step of the
\* handler's exchange).
FairSpec == Spec /\ \A p \in Procs : WF_vars(Step(p))

\* every handler that ran has returned
Terminated == \A p \in Procs : pc[p] \in {"off", "done"}

\* handler p takes the read of one iteration of the streaming loop
LoopRead(p) == pc[p] = "streamRead" /\ trace'[p] # trace[p]

\* the read consumed bytes of the upstream body
Consumes(p) == rd'[p].abs > rd[p].abs

\* the read returned no bytes and no error, and the loop reads again
EmptyRead(p) ==
    /\ rd'[p].abs = rd[p].abs
    /\ rd'[p].seg = rd[p].seg + 1
    /\ chunk'[p] = [data |-> <<>>, err |-> ""]
    /\ pc'[p] = "streamRead"

\* C22 (as claimed): every invocation of ServeHTTP returns, and each
\* iteration of the streaming loop either consumes bytes of the upstream body
\* or leaves the loop.
C22_TerminatesEachReadConsumesOrExits ==
    /\ <>[]Terminated
    /\ [][\A p \in Procs : LoopRead(p) => (Consumes(p) \/ pc'[p] = "done")]_vars

\* C22 (amended): every invocation of ServeHTTP returns once the upstream
\* body has ended, and each iteration of the streaming loop consumes bytes of
\* the upstream body, leaves the loop, or had a read of no bytes without an
\* error, after which it reads again.
C22_TerminatesEachReadConsumesExitsOrIsEmpty ==
    /\ <>[]Terminated
    /\ [][\A p \in Procs :
            LoopRead(p) => (Consumes(p) \/ pc'[p] = "done" \/ EmptyRead(p))]_vars

\* a streaming handler has returned at the end of a body whose first read
\* returned no bytes and no error and whose second read returned one byte
C22_Witness ==
    \E p \in Procs :
        /\ StreamMode(p)
        /\ pc[p] = "done"
        /\ Up(p).segs = <<0, 1>>
        /\ Up(p).end = "eof"
        /\ Count(trace[p], {"read"}) = 3
        /\ CountBytes(trace[p], {"read"}) = 1
        /\ Received(w[p].out) = Bytes(0, 1)
        /\ closed[p]

====
